---------------------------- MODULE Spec2Model ----------------------------
(***************************************************************************)
(* State-machine model of the ccremote Session Monitoring Engine           *)
(* (src/core/monitor.ts, class Monitor) together with the pane binding it  *)
(* drives (src/core/tmux.ts, class TmuxManager).                           *)
(*                                                                         *)
(* Time is the wall clock in whole seconds since midnight of day 0.        *)
(* Pane text is a sequence of lines; every line is one of a small set of   *)
(* line kinds, and the regular expressions of the source are modelled by   *)
(* the set of line kinds each of them matches.                             *)
(*                                                                         *)
(* A poll cycle is a process: `pc` names the awaited external operation    *)
(* (registry, pane, notifier, timeout) the cycle is suspended on.  One     *)
(* action performs that operation and then runs the synchronous code that  *)
(* follows it, up to the next awaited operation.                           *)
(***************************************************************************)
EXTENDS Integers, Sequences, FiniteSets

(***************************************************************************)
(* Bounds of the model                                                     *)
(***************************************************************************)
\* number of clock advances in one behaviour
MaxAdvance == 3
\* poll cycles that can be suspended at the same time (all sessions)
MaxInFlight == 2
\* startMonitoring calls in one behaviour (each makes one state object and one timer)
MaxObjs == 1

(***************************************************************************)
(* Program constants (seconds unless said otherwise)                       *)
(***************************************************************************)
PollInterval == 2
ImmediateWait == 3
CONTINUATION_COOLDOWN == 300
COMPLETION_COOLDOWN == 300
MIN_IDLE_SECONDS == 10
StageAge == 5
SanityCapHours == 5
NewContentMin == 50
RecentLines == 15

HourSecs == 3600
DaySecs == 24 * HourSecs
\* the value of an optional field that is not set (undefined / null)
Undefined == 0 - 1

\* the wall clock at construction: 14:59:51 of day 0
StartClock == 15 * HourSecs - 9
\* the amounts by which the clock advances between two steps, by scenario
LimitTimeSteps == {ImmediateWait, HourSecs}
ApprovalTimeSteps == {ImmediateWait}
IdleTimeSteps == {ImmediateWait, MIN_IDLE_SECONDS, COMPLETION_COOLDOWN}

Sessions == {"s1", "s2"}
Objs == 1..(MaxObjs + 1)
Slots == 1..MaxInFlight

(***************************************************************************)
(* Pane text: line kinds, and the patterns of the source as sets of kinds  *)
(***************************************************************************)
LPrompt == "> "
LWork == "some command output line of sixty characters ......"
LBusy == "processing"
\* a limit notice that also carries a continuation phrase (an active terminal state)
LLimitOk == "5-hour limit reached. Your limit resets at 3pm"
LLimitFar == "5-hour limit reached. Your limit resets at 9pm"
LLimitNone == "Usage limit reached. You can continue this conversation later"
\* a limit notice in a row of a list: limit text, no active terminal state
LLimitRow == "5-hour limit reached - resets 3pm"
LQuestionA == "Do you want to proceed? (A)"
LQuestionB == "Do you want to make this edit to b.ts?"
LSelect == "=> 1. Yes"
\* an option that is not selected, a selected option other than Yes, and a dialog
\* written on one line
LOptionYes == "   2. Yes, allow all edits during this session"
LMarkerNo == "=> 2. No"
LDialogLine == "Do you want to create a.ts? => 1. Yes"
\* what is left of a line that substring() cut in the middle
LFragment == "..."
\* a short answer: 49 characters and a newline
LReply == "a reply of forty-nine characters and a newline .."
\* the empty string split('\n') yields after the final newline of a capture
LEnd == ""

\* length of a line in characters, its newline included
LineLen(l) ==
    CASE l = LPrompt -> 3
      [] l = LWork -> 60
      [] l = LBusy -> 11
      [] l = LLimitOk -> 47
      [] l = LLimitFar -> 47
      [] l = LLimitNone -> 62
      [] l = LLimitRow -> 33
      [] l = LQuestionA -> 28
      [] l = LQuestionB -> 39
      [] l = LSelect -> 10
      [] l = LOptionYes -> 47
      [] l = LMarkerNo -> 9
      [] l = LDialogLine -> 38
      [] l = LReply -> 50
      [] l = LEnd -> 0
      [] OTHER -> 1

RECURSIVE CharLen(_)
CharLen(text) ==
    IF text = <<>> THEN 0 ELSE LineLen(Head(text)) + CharLen(Tail(text))

\* String.prototype.substring(n): drop the first n characters
RECURSIVE Substring(_, _)
Substring(text, n) ==
    IF text = <<>> \/ n <= 0 THEN text
    ELSE IF n >= LineLen(Head(text)) THEN Substring(Tail(text), n - LineLen(Head(text)))
    ELSE <<LFragment>> \o Tail(text)

\* String.prototype.includes: last occurs in cur as a contiguous run of lines
Includes(cur, last) ==
    \E i \in 0..(Len(cur) - Len(last)) :
        SubSeq(cur, i + 1, i + Len(last)) = last

\* lines.slice(-n).join('\n')
LastLines(text, n) ==
    IF Len(text) <= n THEN text ELSE SubSeq(text, Len(text) - n + 1, Len(text))

Lines(text) == {text[i] : i \in 1..Len(text)}

\* output.split('\n') of a capture, every line of which ends in a newline
SplitLines(text) == Append(text, LEnd)

\* the white space String.prototype.trim() removes at the end of a line: its newline
\* and its trailing blanks
TrailingBlank(l) == IF l = LPrompt THEN 2 ELSE 1

\* outputAfter.substring(outputBefore.length).trim().length; of a line that the cut
\* divides, the characters after the cut are all counted
NewContentLength(outputBefore, outputAfter) ==
    LET raw == CharLen(outputAfter) - CharLen(outputBefore)
    IN  IF raw <= 0 THEN 0
        ELSE IF raw <= TrailingBlank(outputAfter[Len(outputAfter)]) THEN 0
        ELSE raw - TrailingBlank(outputAfter[Len(outputAfter)])

\* /limit\s+reached|usage\s+limit|limit.*resets/i
hasLimitMessage(output) ==
    Lines(output) \cap {LLimitOk, LLimitFar, LLimitNone, LLimitRow} # {}

\* activeStatePatterns: a prompt line, an input box, a continuation phrase
isActiveTerminalState(output) ==
    Lines(output) \cap {LPrompt, LLimitOk, LLimitFar, LLimitNone} # {}

\* patterns.approvalDialog: the lines each of the three patterns matches
QuestionLines == {LQuestionA, LQuestionB, LDialogLine}
NumberedLines == {LSelect, LOptionYes, LDialogLine}
SelectionLines == {LSelect, LMarkerNo, LDialogLine}

\* the detection without its currentSelection component
detectApprovalDialogWithoutSelection(output) ==
    /\ Lines(output) \cap QuestionLines # {}
    /\ Lines(output) \cap NumberedLines # {}

\* detectApprovalDialog(output) (monitor.ts:523-554)
detectApprovalDialog(output) ==
    /\ Lines(output) \cap QuestionLines # {}
    /\ Lines(output) \cap NumberedLines # {}
    /\ Lines(output) \cap SelectionLines # {}

\* extractApprovalInfo(output).question: the last line matching the question
RECURSIVE ApprovalQuestion(_)
ApprovalQuestion(output) ==
    IF output = <<>> THEN ""
    ELSE IF output[Len(output)] \in QuestionLines THEN output[Len(output)]
    ELSE ApprovalQuestion(SubSeq(output, 1, Len(output) - 1))

\* patterns.taskCompletion.waitingForInput: /^>.*send|^>\s*$/m
waitingForInput(output) == Lines(output) \cap {LPrompt} # {}

\* patterns.taskCompletion.notProcessing: some line carries no processing marker
notProcessing(output) == output = <<>> \/ Lines(output) \ {LBusy} # {}


(***************************************************************************)
(* Reset-time strings and their parsing                                    *)
(***************************************************************************)
\* a time string "H", "H:MM", "Ham", "H:MMpm": hours, minutes (or Undefined), period
TimeStr(h, m, p) == [h |-> h, m |-> m, p |-> p]
NoTimeStr == TimeStr(Undefined, Undefined, "")
\* metadata.resetTime of a 'limit' notification when no reset time was extracted
MonitoringForAvailability == TimeStr(Undefined, Undefined, "Monitoring for availability")

\* the capture group of the first reset-time pattern that matches in a line
ResetTimeIn(l) ==
    CASE l = LLimitOk -> TimeStr(3, Undefined, "pm")
      [] l = LLimitFar -> TimeStr(9, Undefined, "pm")
      [] l = LLimitRow -> TimeStr(3, Undefined, "pm")
      [] OTHER -> NoTimeStr

RECURSIVE extractResetTime(_)
extractResetTime(output) ==
    IF output = <<>> THEN NoTimeStr
    ELSE IF ResetTimeIn(Head(output)) # NoTimeStr THEN ResetTimeIn(Head(output))
    ELSE extractResetTime(Tail(output))

\* midnight of the day of t (Date.setHours(0, 0, 0, 0))
DayStart(t) == (t \div DaySecs) * DaySecs

\* AM/PM conversion shared by parseResetTime and parseTimeToNextOccurrence
To24h(ts) ==
    IF ts.p = "pm" /\ ts.h # 12 THEN ts.h + 12
    ELSE IF ts.p = "am" /\ ts.h = 12 THEN 0
    ELSE ts.h

MinutesOf(ts) == IF ts.m = Undefined THEN 0 ELSE ts.m

\* the parsed hour and minute of today, never rolled to tomorrow
NextClockTimeToday(ts, t) == DayStart(t) + To24h(ts) * HourSecs + MinutesOf(ts) * 60

\* today at the parsed hour and minute, tomorrow when that is not after t
NextClockTime(ts, t) ==
    LET today == DayStart(t) + To24h(ts) * HourSecs + MinutesOf(ts) * 60
    IN  IF today <= t THEN today + DaySecs ELSE today

\* parseResetTime without its sanity check
WithinSanityCapUnchecked(resetTime, t) == TRUE

\* the sanity check rejecting a reset time exactly 5 hours away
WithinSanityCapStrict(resetTime, t) == resetTime - t < SanityCapHours * HourSecs

\* the sanity check of parseResetTime: hoursToReset > 5 is rejected
WithinSanityCap(resetTime, t) == resetTime - t <= SanityCapHours * HourSecs

\* parseResetTime(timeStr) called at wall time t; Undefined stands for null
parseResetTime(ts, t) ==
    IF ts = NoTimeStr THEN Undefined
    ELSE IF WithinSanityCap(NextClockTime(ts, t), t) THEN NextClockTime(ts, t)
    ELSE Undefined

\* parseTimeToNextOccurrence(timeStr) called at wall time t
parseTimeToNextOccurrence(ts, t) ==
    IF ts = NoTimeStr THEN Undefined
    ELSE IF To24h(ts) < 0 \/ To24h(ts) > 23 \/ MinutesOf(ts) < 0 \/ MinutesOf(ts) > 59
    THEN Undefined
    ELSE DayStart(t) + To24h(ts) * HourSecs + MinutesOf(ts) * 60 + DaySecs

\* generateQuotaMessage(nextExecution): the message names the date of the window
generateQuotaMessage(nextExecution) == nextExecution \div DaySecs

(***************************************************************************)
(* getNewOutput                                                            *)
(***************************************************************************)
getNewOutput(lastOutput, currentOutput) ==
    IF lastOutput = <<>> THEN currentOutput
    ELSE IF Includes(currentOutput, lastOutput)
    THEN Substring(currentOutput, CharLen(lastOutput))
    ELSE currentOutput

(***************************************************************************)
(* State                                                                   *)
(***************************************************************************)
VARIABLES
    now,        \* wall clock
    advances,   \* number of clock advances so far
    reg,        \* session registry: one record per session id
    pane,       \* the multiplexer pane of each session
    objs,       \* the runtime-state objects startMonitoring has created
    timers,     \* the interval timers startMonitoring has created
    nObjs,      \* number of state objects startMonitoring has created so far
    lastCall,   \* per session: the last call of the public contract, "start" or "stop"
    probe,      \* the call of a pure function under examination: arguments and result
    sessionStates,        \* Map sessionId -> state object (0: no entry)
    monitoringIntervals,  \* Map sessionId -> timer (0: no entry)
    cycles,     \* the suspended calls of pollSession and of startMonitoring
    notes,      \* number of notifications handed to the notifier, by session and type,
                \* and the resetTime of the last 'limit' notification
    events,     \* number of MonitorEvents emitted, by session and type
    episodes,   \* per state object: one record per limit episode, counting its side effects
    taskLog,    \* per state object: the times at which task_completed was announced
    approvals   \* per state object: the questions announced, with their notifications

vars == <<now, advances, reg, pane, objs, timers, nObjs, lastCall, probe, sessionStates,
          monitoringIntervals, cycles, notes, events, episodes, taskLog, approvals>>

NoteTypes == {"limit", "continued", "approval", "task_completed", "quota"}
EventTypes == {"limit_detected", "approval_needed", "task_completed", "error"}

\* the quota schedule of the session records that carry one: daily at 15:00
QuotaTime == TimeStr(15, 0, "")
NoQuota == [time |-> NoTimeStr, command |-> Undefined, nextExecution |-> Undefined]
FirstQuota ==
    [time |-> QuotaTime,
     command |-> generateQuotaMessage(NextClockTime(QuotaTime, StartClock)),
     nextExecution |-> NextClockTime(QuotaTime, StartClock)]

\* a schedule whose time of day does not parse to a time: "25:00"
BadQuotaTime == TimeStr(25, 0, "")
BrokenQuota == [FirstQuota EXCEPT !.time = BadQuotaTime]

\* a session record of the registry
SessionRecord(present, quota) ==
    [present |-> present, status |-> "active", created |-> StartClock,
     quotaSchedule |-> quota]

\* the keys typed on the input line of a pane
KeyContinue == [k |-> "continue", d |-> 0]
KeyQuota(command) == [k |-> "quota", d |-> command]

\* the state startMonitoring stores for a session
NewSessionState(t) ==
    [lastOutput |-> <<>>,
     limitDetectedAt |-> Undefined,
     awaitingContinuation |-> FALSE,
     retryCount |-> 0,
     lastContinuationTime |-> Undefined,
     scheduledResetTime |-> Undefined,
     immediateContinueAttempted |-> FALSE,
     quotaCommandSent |-> FALSE,
     lastOutputChangeTime |-> t,
     lastTaskCompletionNotification |-> Undefined,
     lastApprovalQuestion |-> "undefined"]

NoTimer == [on |-> FALSE, sid |-> "s1", next |-> 0]

\* a slot of `cycles` that holds no pollSession call
IdleCycle ==
    [pc |-> "idle", sid |-> "s1", session |-> SessionRecord(FALSE, NoQuota),
     ref |-> 0, out |-> <<>>, slice |-> <<>>, lim |-> <<>>, before |-> <<>>,
     t |-> 0, wake |-> 0, nextExecution |-> 0, ep |-> 0, ap |-> 0, rt |-> NoTimeStr,
     emits |-> 0, idleDurationSeconds |-> 0]


(***************************************************************************)
(* Synchronous code of a poll cycle.  M is the part of the state a cycle   *)
(* writes: [objs, cyc, episodes, taskLog, approvals, events]; an operator  *)
(* maps M to the M the code leaves when it reaches its next awaited       *)
(* operation.                                                              *)
(***************************************************************************)
Emit(M, type) ==
    [M EXCEPT !.events[M.cyc.sid][type] = @ + 1, !.cyc.emits = @ + 1]

\* the pollSession call returns
Return(M) == [M EXCEPT !.cyc = IdleCycle]

AwaitOp(M, pc) == [M EXCEPT !.cyc.pc = pc]

\* the idle window compared strictly
IdleLongEnoughStrict(o, t) == t - o.lastOutputChangeTime > MIN_IDLE_SECONDS

\* checkTaskCompletion: idleDuration < MIN_IDLE_SECONDS returns
IdleLongEnough(o, t) == t - o.lastOutputChangeTime >= MIN_IDLE_SECONDS

\* checkTaskCompletion without its cooldown
InCompletionCooldownNever(o, t) == FALSE

\* the cooldown still holding when exactly COMPLETION_COOLDOWN has elapsed
InCompletionCooldownInclusive(o, t) ==
    /\ o.lastTaskCompletionNotification # Undefined
    /\ t - o.lastTaskCompletionNotification <= COMPLETION_COOLDOWN

\* checkTaskCompletion: the cooldown since lastTaskCompletionNotification
InCompletionCooldown(o, t) ==
    /\ o.lastTaskCompletionNotification # Undefined
    /\ t - o.lastTaskCompletionNotification < COMPLETION_COOLDOWN

\* checkTaskCompletion measuring the idle time of a further announcement from the
\* announcement before it
checkTaskCompletionSinceAnnouncement(M) ==
    LET g == sessionStates[M.cyc.sid]
        o == M.objs[g]
        since == IF o.lastTaskCompletionNotification # Undefined
                 THEN o.lastTaskCompletionNotification ELSE o.lastOutputChangeTime
    IN  IF g = 0 THEN Return(M)
        ELSE IF o.awaitingContinuation THEN Return(M)
        ELSE IF ~IdleLongEnough(o, now) THEN Return(M)
        ELSE IF ~waitingForInput(M.cyc.out) \/ ~notProcessing(M.cyc.out) THEN Return(M)
        ELSE IF InCompletionCooldown(o, now) THEN Return(M)
        ELSE AwaitOp(Emit([M EXCEPT !.objs[g].lastTaskCompletionNotification = now,
                                    !.taskLog[g] = Append(@, now),
                                    !.cyc.idleDurationSeconds = now - since,
                                    !.cyc.ref = g],
                          "task_completed"),
                     "taskGetName")

\* checkTaskCompletion(sessionId, output), then handleTaskCompletion up to its first
\* await; idleDurationSeconds is the idle time handed to handleTaskCompletion
checkTaskCompletion(M) ==
    LET g == sessionStates[M.cyc.sid]
        o == M.objs[g]
    IN  IF g = 0 THEN Return(M)
        ELSE IF o.awaitingContinuation THEN Return(M)
        ELSE IF ~IdleLongEnough(o, now) THEN Return(M)
        ELSE IF ~waitingForInput(M.cyc.out) \/ ~notProcessing(M.cyc.out) THEN Return(M)
        ELSE IF InCompletionCooldown(o, now) THEN Return(M)
        ELSE AwaitOp(Emit([M EXCEPT !.objs[g].lastTaskCompletionNotification = now,
                                    !.taskLog[g] = Append(@, now),
                                    !.cyc.idleDurationSeconds = now - o.lastOutputChangeTime,
                                    !.cyc.ref = g],
                          "task_completed"),
                     "taskGetName")

\* detectPatterns from its approval check on (monitor.ts:275), then analyzeOutput's
\* call of checkTaskCompletion
detectApproval(M) ==
    IF detectApprovalDialog(M.cyc.slice) THEN AwaitOp(M, "approvalGetSession")
    ELSE checkTaskCompletion(M)

\* handleApprovalRequest announcing every dialog it is handed
handleApprovalRequestOfEveryDialog(M) ==
    LET g == sessionStates[M.cyc.sid]
        question == ApprovalQuestion(M.cyc.slice)
    IN  IF g = 0 THEN checkTaskCompletion(M)
        ELSE AwaitOp(Emit([M EXCEPT !.objs[g].lastApprovalQuestion = question,
                                    !.approvals[g] =
                                        Append(@, [question |-> question, notes |-> 0,
                                                   after |-> Len(M.episodes[g])]),
                                    !.cyc.ap = Len(M.approvals[g]) + 1,
                                    !.cyc.ref = g],
                          "approval_needed"),
                     "approvalGetName")

\* the comparison with lastApprovalQuestion left out
AlreadyAnnouncedNever(o, question) == FALSE

\* handleApprovalRequest: the question is the one announced last (monitor.ts:649)
AlreadyAnnounced(o, question) == o.lastApprovalQuestion = question

\* handleApprovalRequest up to its first await
handleApprovalRequest(M) ==
    LET g == sessionStates[M.cyc.sid]
        question == ApprovalQuestion(M.cyc.slice)
    IN  IF g = 0 THEN checkTaskCompletion(M)
        ELSE IF AlreadyAnnounced(M.objs[g], question) THEN checkTaskCompletion(M)
        ELSE AwaitOp(Emit([M EXCEPT !.objs[g].lastApprovalQuestion = question,
                                    !.approvals[g] =
                                        Append(@, [question |-> question, notes |-> 0,
                                                   after |-> Len(M.episodes[g])]),
                                    !.cyc.ap = Len(M.approvals[g]) + 1,
                                    !.cyc.ref = g],
                          "approval_needed"),
                     "approvalGetName")

\* handleLimitDetected storing whatever deadline the reset time names, and none when
\* the text names no reset time, then returning without a notification
scheduleContinuationQuietWithoutDeadline(M, output) ==
    LET g == M.cyc.ref
        resetTime == extractResetTime(output)
        resetDateTime == parseResetTime(resetTime, now)
    IN  IF resetTime # NoTimeStr /\ resetDateTime # Undefined
        THEN AwaitOp([M EXCEPT !.objs[g].scheduledResetTime = resetDateTime,
                               !.cyc.rt = resetTime], "limitGetName")
        ELSE AwaitOp([M EXCEPT !.cyc.rt = resetTime], "limitUpdateWaiting")

\* handleLimitDetected from "schedule for later" (monitor.ts:429) up to the await of
\* the notification; output is the text the reset time is extracted from
scheduleContinuation(M, output) ==
    LET g == M.cyc.ref
        resetTime == extractResetTime(output)
        resetDateTime == parseResetTime(resetTime, now)
        M1 == IF resetTime # NoTimeStr /\ resetDateTime # Undefined
              THEN [M EXCEPT !.objs[g].scheduledResetTime = resetDateTime]
              ELSE M
    IN  AwaitOp([M1 EXCEPT !.cyc.rt = resetTime], "limitGetName")

\* handleLimitDetected up to its first await
handleLimitDetected(M) ==
    LET g == sessionStates[M.cyc.sid]
        M1 == [M EXCEPT !.cyc.ref = g, !.cyc.lim = M.cyc.slice]
    IN  IF M.objs[g].scheduledResetTime # Undefined THEN detectApproval(M)
        ELSE IF ~M.objs[g].immediateContinueAttempted
        THEN AwaitOp(Emit([M1 EXCEPT !.objs[g].immediateContinueAttempted = TRUE],
                          "limit_detected"),
                     "tryGetSession")
        ELSE scheduleContinuation(Emit(M1, "limit_detected"), M.cyc.slice)

\* the condition without its awaitingContinuation conjunct
LimitEntryGuardWithoutLatch(o, output) ==
    /\ hasLimitMessage(output)
    /\ isActiveTerminalState(output)

\* the condition consulting the deadline instead of awaitingContinuation
LimitEntryGuardOnDeadline(o, output) ==
    /\ hasLimitMessage(output)
    /\ isActiveTerminalState(output)
    /\ o.scheduledResetTime = Undefined

\* the condition without its active-terminal conjunct
LimitEntryGuardWithoutMarker(o, output) ==
    /\ hasLimitMessage(output)
    /\ ~o.awaitingContinuation

\* detectPatterns: the condition under which a limit is looked at (monitor.ts:255)
LimitEntryGuard(o, output) ==
    /\ hasLimitMessage(output)
    /\ isActiveTerminalState(output)
    /\ ~o.awaitingContinuation

\* detectPatterns without its cooldown
InContinuationCooldownNever(o, t) == FALSE

\* detectPatterns: the cooldown since lastContinuationTime (monitor.ts:257-266)
InContinuationCooldown(o, t) ==
    /\ o.lastContinuationTime # Undefined
    /\ t - o.lastContinuationTime < CONTINUATION_COOLDOWN

\* the record of a limit episode: the limit entries (calls of handleLimitDetected),
\* 'limit' notifications and continue sequences that belong to it
NewEpisode == [entries |-> 1, limit |-> 0, immediate |-> 0, scheduled |-> 0]

\* a limit entry of state object g: it begins an episode unless one is under way
BeginEpisode(M, g) ==
    IF M.objs[g].awaitingContinuation /\ M.episodes[g] # <<>>
    THEN [M EXCEPT !.episodes[g][Len(M.episodes[g])].entries = @ + 1,
                   !.cyc.ep = Len(M.episodes[g])]
    ELSE [M EXCEPT !.episodes[g] = Append(@, NewEpisode),
                   !.cyc.ep = Len(M.episodes[g]) + 1]

\* detectPatterns(sessionId, newOutput)
detectPatterns(M) ==
    LET g == sessionStates[M.cyc.sid]
        o == M.objs[g]
    IN  IF g = 0 THEN checkTaskCompletion(M)
        ELSE IF LimitEntryGuard(o, M.cyc.slice)
        THEN IF InContinuationCooldown(o, now) THEN checkTaskCompletion(M)
             ELSE handleLimitDetected(
                      [BeginEpisode(M, g) EXCEPT !.objs[g].limitDetectedAt = now,
                                                 !.objs[g].awaitingContinuation = TRUE])
        ELSE detectApproval(M)

\* analyzeOutput leaving lastOutput as it was
analyzeOutputKeepingSnapshot(M) ==
    LET g == sessionStates[M.cyc.sid]
        o == M.objs[g]
    IN  IF g = 0 THEN Return(M)
        ELSE IF M.cyc.out # o.lastOutput
        THEN detectPatterns([M EXCEPT !.objs[g].lastOutputChangeTime = now,
                                      !.cyc.slice = getNewOutput(o.lastOutput, M.cyc.out)])
        ELSE checkTaskCompletion(M)

\* analyzeOutput handing the whole capture to detectPatterns
analyzeOutputOfWholeCapture(M) ==
    LET g == sessionStates[M.cyc.sid]
        o == M.objs[g]
    IN  IF g = 0 THEN Return(M)
        ELSE IF M.cyc.out # o.lastOutput
        THEN detectPatterns([M EXCEPT !.objs[g].lastOutputChangeTime = now,
                                      !.objs[g].lastOutput = M.cyc.out,
                                      !.cyc.slice = M.cyc.out])
        ELSE checkTaskCompletion(M)

\* analyzeOutput(sessionId, output) with output = M.cyc.out
analyzeOutput(M) ==
    LET g == sessionStates[M.cyc.sid]
        o == M.objs[g]
    IN  IF g = 0 THEN Return(M)
        ELSE IF M.cyc.out # o.lastOutput
        THEN detectPatterns([M EXCEPT !.objs[g].lastOutputChangeTime = now,
                                      !.objs[g].lastOutput = M.cyc.out,
                                      !.cyc.slice = getNewOutput(o.lastOutput, M.cyc.out)])
        ELSE checkTaskCompletion(M)

\* the attempt counting as failed whenever the capture still shows limit text
ContinuationFailedWhileLimitShown(outputBefore, outputAfter) ==
    hasLimitMessage(outputAfter)

\* tryImmediateContinuation: TRUE when the attempt counts as failed
ContinuationFailed(outputBefore, outputAfter) ==
    LET hasLimitInFull == hasLimitMessage(outputAfter)
        isJustLimitResponse ==
            NewContentLength(outputBefore, outputAfter) < NewContentMin /\ hasLimitInFull
        recentLines == LastLines(SplitLines(outputAfter), RecentLines)
    IN  IF hasLimitInFull /\ isJustLimitResponse THEN TRUE
        ELSE IF hasLimitInFull
        THEN hasLimitMessage(recentLines) /\ isActiveTerminalState(recentLines)
        ELSE FALSE

\* the gate comparing with > instead of >=
ScheduledTimeArrivedLate(o, t) ==
    /\ o.scheduledResetTime # Undefined
    /\ t > o.scheduledResetTime

\* pollSession: the scheduled-continuation gate (monitor.ts:162-164)
ScheduledTimeArrived(o, t) ==
    /\ o.scheduledResetTime # Undefined
    /\ t >= o.scheduledResetTime

\* pollSession: "execute at the scheduled time" (monitor.ts:192) with the state object
\* g and the time t the quota block read
quotaFire(M, g, t) ==
    IF /\ t >= M.cyc.session.quotaSchedule.nextExecution
       /\ g # 0
       /\ M.objs[g].quotaCommandSent
    THEN AwaitOp(M, "quotaGetSession")
    ELSE AwaitOp(M, "capturePane")

\* the gate without "clear the scheduled time to prevent repeated execution"
afterSessionExistsKeepingDeadline(M) ==
    LET g == sessionStates[M.cyc.sid]
        M1 == [M EXCEPT !.cyc.ref = g, !.cyc.t = now]
    IN  IF g # 0 /\ ScheduledTimeArrived(M.objs[g], now)
        THEN AwaitOp(M1, "autoGetSession")
        ELSE IF M.cyc.session.quotaSchedule = NoQuota THEN AwaitOp(M1, "capturePane")
        ELSE IF (g = 0 \/ ~M.objs[g].quotaCommandSent)
                /\ now - M.cyc.session.created > StageAge
        THEN AwaitOp(M1, "stageKeys")
        ELSE quotaFire(M1, g, now)

\* pollSession from the scheduled-continuation gate to its next await
afterSessionExists(M) ==
    LET g == sessionStates[M.cyc.sid]
        M1 == [M EXCEPT !.cyc.ref = g, !.cyc.t = now]
    IN  IF g # 0 /\ ScheduledTimeArrived(M.objs[g], now)
        THEN AwaitOp([M1 EXCEPT !.objs[g].scheduledResetTime = Undefined],
                     "autoGetSession")
        ELSE IF M.cyc.session.quotaSchedule = NoQuota THEN AwaitOp(M1, "capturePane")
        ELSE IF (g = 0 \/ ~M.objs[g].quotaCommandSent)
                /\ now - M.cyc.session.created > StageAge
        THEN AwaitOp(M1, "stageKeys")
        ELSE quotaFire(M1, g, now)


(***************************************************************************)
(* Initial state: the Monitor has been constructed, nothing is monitored.  *)
(* The registry holds session s1 (with or without a quota schedule).       *)
(***************************************************************************)
\* what the pane of a session can show: text and the colour of its escapes
Screen(text, color) == [text |-> text, color |-> color]
\* the screens of a session that runs into usage limits
LimitScreens ==
    { Screen(<<LWork>>, "normal"),
      Screen(<<LLimitOk>>, "normal"),
      Screen(<<LLimitFar>>, "normal"),
      Screen(<<LLimitNone>>, "normal") }

\* the screens of a session that asks for approvals
ApprovalScreens ==
    { Screen(<<LWork>>, "normal"),
      Screen(<<LQuestionA, LSelect>>, "normal"),
      Screen(<<LWork, LQuestionA, LSelect>>, "normal"),
      Screen(<<LQuestionB, LSelect>>, "normal"),
      Screen(<<LQuestionA, LSelect>>, "dim") }
\* the screens of a session that finishes tasks and waits at its prompt
IdleScreens ==
    { Screen(<<LWork>>, "normal"),
      Screen(<<LPrompt>>, "normal"),
      Screen(<<LBusy, LPrompt>>, "normal") }
\* the screens of a session with a quota schedule that runs into a limit
QuotaScreens ==
    { Screen(<<LWork>>, "normal"),
      Screen(<<LLimitOk>>, "normal") }

NewPane(exists) ==
    [exists |-> exists, fault |-> FALSE, text |-> <<LWork>>, color |-> "normal",
     input |-> <<>>]

\* no pure function has been called for examination
NoProbe == [fn |-> "none", ts |-> NoTimeStr, t |-> 0, result |-> Undefined]

\* the engine after construction, whatever the wall clock shows
StateInit ==
    /\ advances = 0
    /\ objs = [g \in Objs |-> NewSessionState(StartClock)]
    /\ timers = [g \in Objs |-> NoTimer]
    /\ nObjs = 0
    /\ lastCall = [s \in Sessions |-> "none"]
    /\ probe = NoProbe
    /\ sessionStates = [s \in Sessions |-> 0]
    /\ monitoringIntervals = [s \in Sessions |-> 0]
    /\ cycles = [c \in Slots |-> IdleCycle]
    /\ notes = [s \in Sessions |->
                    [t \in NoteTypes \cup {"resetTime"} |->
                        IF t = "resetTime" THEN NoTimeStr ELSE 0]]
    /\ events = [s \in Sessions |-> [t \in EventTypes |-> 0]]
    /\ episodes = [g \in Objs |-> <<>>]
    /\ taskLog = [g \in Objs |-> <<>>]
    /\ approvals = [g \in Objs |-> <<>>]

TypeInit ==
    /\ now = StartClock
    /\ StateInit

\* session s1 has a quota schedule: daily at 15:00, first at 15:00:00 of day 0
InitQuota ==
    /\ TypeInit
    /\ reg = [s \in Sessions |-> SessionRecord(s = "s1", IF s = "s1" THEN FirstQuota ELSE NoQuota)]
    /\ pane = [s \in Sessions |-> NewPane(s = "s1")]

\* session s1 has a quota schedule whose time of day parses, or one whose does not
InitQuotaAny ==
    /\ TypeInit
    /\ \E q \in {FirstQuota, BrokenQuota} :
           reg = [s \in Sessions |-> SessionRecord(s = "s1", IF s = "s1" THEN q ELSE NoQuota)]
    /\ pane = [s \in Sessions |-> NewPane(s = "s1")]

\* session s1 has no quota schedule
Init ==
    /\ TypeInit
    /\ reg = [s \in Sessions |-> SessionRecord(s = "s1", NoQuota)]
    /\ pane = [s \in Sessions |-> NewPane(s = "s1")]

\* both sessions are in the registry, neither has a quota schedule
InitBoth ==
    /\ TypeInit
    /\ reg = [s \in Sessions |-> SessionRecord(TRUE, NoQuota)]
    /\ pane = [s \in Sessions |-> NewPane(TRUE)]

(***************************************************************************)
(* Helpers of the actions                                                  *)
(***************************************************************************)
maxRetries == 3

At(c, pc) == cycles[c].pc = pc

\* a multiplexer command on the pane of s fails (execAsync rejects): the session is
\* gone or the command cannot be run just now
PaneFails(s) == ~pane[s].exists \/ pane[s].fault

Cur(c) ==
    [objs |-> objs, cyc |-> cycles[c], episodes |-> episodes,
     taskLog |-> taskLog, approvals |-> approvals, events |-> events]

\* a state object is live while the map or a suspended call refers to it; an object
\* that nothing refers to any more is garbage and is returned to its initial value
Live(g, states, cs) ==
    \/ \E s \in Sessions : states[s] = g
    \/ \E c \in Slots : cs[c].pc # "idle" /\ cs[c].ref = g

Collect(M, states, cs) ==
    [M EXCEPT !.objs = [g \in Objs |-> IF Live(g, states, cs) THEN M.objs[g]
                                        ELSE NewSessionState(StartClock)],
              !.episodes = [g \in Objs |-> IF Live(g, states, cs) THEN M.episodes[g]
                                            ELSE <<>>],
              !.taskLog = [g \in Objs |-> IF Live(g, states, cs) THEN M.taskLog[g]
                                           ELSE <<>>],
              !.approvals = [g \in Objs |-> IF Live(g, states, cs) THEN M.approvals[g]
                                             ELSE <<>>]]

\* the state a step of cycle c leaves, given the map sessionStates it leaves
CommitWith(c, M, states) ==
    LET cs == [cycles EXCEPT ![c] = M.cyc]
        M1 == IF M.cyc.pc = "idle" \/ states # sessionStates THEN Collect(M, states, cs)
              ELSE M
    IN  /\ objs' = M1.objs
        /\ cycles' = cs
        /\ episodes' = M1.episodes
        /\ taskLog' = M1.taskLog
        /\ approvals' = M1.approvals
        /\ events' = M1.events

Commit(c, M) == CommitWith(c, M, sessionStates)

\* the same with stopMonitoring(s) called in the step
CommitStopped(c, M, s) == CommitWith(c, M, [sessionStates EXCEPT ![s] = 0])

\* stopMonitoring cancelling every session
StopEffectEverySession(s) ==
    /\ timers' = [g \in Objs |-> NoTimer]
    /\ monitoringIntervals' = [x \in Sessions |-> 0]
    /\ sessionStates' = [x \in Sessions |-> 0]

\* stopMonitoring leaving the runtime state in its map
StopEffectKeepingState(s) ==
    /\ timers' = IF monitoringIntervals[s] # 0
                 THEN [timers EXCEPT ![monitoringIntervals[s]] = NoTimer]
                 ELSE timers
    /\ monitoringIntervals' = [monitoringIntervals EXCEPT ![s] = 0]
    /\ sessionStates' = sessionStates

\* stopMonitoring(sessionId): clearInterval, delete both map entries
StopEffect(s) ==
    /\ timers' = IF monitoringIntervals[s] # 0
                 THEN [timers EXCEPT ![monitoringIntervals[s]] = NoTimer]
                 ELSE timers
    /\ monitoringIntervals' = [monitoringIntervals EXCEPT ![s] = 0]
    /\ sessionStates' = [sessionStates EXCEPT ![s] = 0]

KeepMaps == UNCHANGED <<timers, monitoringIntervals, sessionStates>>
KeepEnv == UNCHANGED <<now, advances, reg, pane, nObjs, lastCall, probe>>

\* safeNotifyDiscord(sessionId, {type, ...}): the notification is handed to the notifier
Notify(s, type) == notes' = [notes EXCEPT ![s][type] = @ + 1]

\* safeNotifyDiscord(sessionId, {type: 'limit', metadata: {resetTime: resetTime ||
\* 'Monitoring for availability'}}) (monitor.ts:440-449); notes[s].resetTime is the
\* resetTime of the last 'limit' notification
NotifyLimit(s, resetTime) ==
    notes' = [notes EXCEPT ![s]["limit"] = @ + 1,
                           ![s]["resetTime"] = IF resetTime # NoTimeStr THEN resetTime
                                               ELSE MonitoringForAvailability]

\* the outcomes of discordBot.sendNotification: ok, or an exception after its retries
NotifierOutcomes == BOOLEAN

\* safeNotifyDiscord rethrowing what sendNotification threw
NotifierFailureRethrown(ok) == ~ok

\* safeNotifyDiscord: the exception is caught and logged, never thrown (monitor.ts:96-102)
NotifierFailureThrown(ok) == FALSE

\* sessionManager.updateSession(sessionId, {status})
UpdateStatus(s, status) ==
    reg' = IF reg[s].present THEN [reg EXCEPT ![s].status = status] ELSE reg

\* tmux send-keys C-u / "continue" / Enter (sendContinueCommand)
ContinueKeys(s) == pane' = [pane EXCEPT ![s].input = <<>>]

\* the budget compared strictly
RetriesExhaustedLate(o) == o.retryCount > maxRetries

\* handlePollingError: retryCount >= maxRetries (monitor.ts:704)
RetriesExhausted(o) == o.retryCount >= maxRetries

\* handlePollingError(sessionId, error), called from the catch of pollSession
handlePollingError(c) ==
    LET s == cycles[c].sid
        g == sessionStates[s]
        M1 == [Cur(c) EXCEPT !.objs[g].retryCount = @ + 1]
    IN  IF g = 0 THEN KeepMaps /\ Commit(c, Return(Cur(c)))
        ELSE IF RetriesExhausted(M1.objs[g])
        THEN StopEffect(s) /\ CommitStopped(c, Return(Emit(M1, "error")), s)
        ELSE KeepMaps /\ Commit(c, Return(M1))

(***************************************************************************)
(* Operations of the public contract                                       *)
(***************************************************************************)
\* startMonitoring: sessionStates.set, setInterval, monitoringIntervals.set
\* (monitor.ts:112-129); an interval the map held before stays running
Install(s) ==
    /\ nObjs' = nObjs + 1
    /\ LET M == Collect([objs |-> [objs EXCEPT ![nObjs + 1] = NewSessionState(now)],
                         episodes |-> episodes, taskLog |-> taskLog,
                         approvals |-> approvals],
                        [sessionStates EXCEPT ![s] = nObjs + 1], cycles)
       IN  /\ objs' = M.objs /\ episodes' = M.episodes
           /\ taskLog' = M.taskLog /\ approvals' = M.approvals
    /\ timers' = [timers EXCEPT ![nObjs + 1] =
                      [on |-> TRUE, sid |-> s, next |-> now + PollInterval]]
    /\ sessionStates' = [sessionStates EXCEPT ![s] = nObjs + 1]
    /\ monitoringIntervals' = [monitoringIntervals EXCEPT ![s] = nObjs + 1]

\* startMonitoring(sessionId) whose registry lookup returns the session before
\* anything else happens
StartMonitoring(s) ==
    /\ nObjs < MaxObjs
    /\ reg[s].present
    /\ Install(s)
    /\ lastCall' = [lastCall EXCEPT ![s] = "start"]
    /\ UNCHANGED <<now, advances, reg, pane, probe, cycles, notes, events>>

\* the startMonitoring calls that await their registry lookup
StartsPending == {c \in Slots : cycles[c].pc = "startGetSession"}

\* startMonitoring(sessionId) is called: await getSession (monitor.ts:106)
StartCall(s) ==
    /\ nObjs + Cardinality(StartsPending) < MaxObjs + 1
    /\ \E c \in Slots :
           /\ cycles[c].pc = "idle"
           /\ \A y \in Slots : cycles[y].pc = "idle" => c <= y
           /\ cycles' = [cycles EXCEPT ![c] =
                             [IdleCycle EXCEPT !.pc = "startGetSession", !.sid = s]]
    /\ lastCall' = [lastCall EXCEPT ![s] = "start"]
    /\ UNCHANGED <<now, advances, reg, pane, probe, objs, timers, nObjs, sessionStates,
                   monitoringIntervals, notes, events, episodes, taskLog, approvals>>

\* startMonitoring after its lookup: throw "Session not found" or install
\* (monitor.ts:107-130)
StartInstall(c) ==
    /\ At(c, "startGetSession")
    /\ cycles' = [cycles EXCEPT ![c] = IdleCycle]
    /\ IF reg[cycles[c].sid].present THEN Install(cycles[c].sid)
       ELSE UNCHANGED <<objs, timers, nObjs, sessionStates, monitoringIntervals,
                        episodes, taskLog, approvals>>
    /\ UNCHANGED <<now, advances, reg, pane, lastCall, probe, notes, events>>

\* stopMonitoring(sessionId)
StopMonitoring(s) ==
    /\ \/ monitoringIntervals[s] # 0
       \/ sessionStates[s] # 0
       \/ \E c \in StartsPending : cycles[c].sid = s
    /\ StopEffect(s)
    /\ LET M == Collect([objs |-> objs, episodes |-> episodes, taskLog |-> taskLog,
                         approvals |-> approvals],
                        [sessionStates EXCEPT ![s] = 0], cycles)
       IN  /\ objs' = M.objs /\ episodes' = M.episodes
           /\ taskLog' = M.taskLog /\ approvals' = M.approvals
    /\ lastCall' = [lastCall EXCEPT ![s] = "stop"]
    /\ UNCHANGED <<now, advances, reg, pane, probe, nObjs, cycles, notes, events>>

\* stopAll(): stopMonitoring for every key of monitoringIntervals (monitor.ts:1009-1014)
StopAll ==
    LET keys == {s \in Sessions : monitoringIntervals[s] # 0}
        states == [s \in Sessions |-> IF s \in keys THEN 0 ELSE sessionStates[s]]
    IN  /\ keys # {}
        /\ timers' = [g \in Objs |->
                          IF \E s \in keys : monitoringIntervals[s] = g THEN NoTimer
                          ELSE timers[g]]
        /\ monitoringIntervals' = [s \in Sessions |-> 0]
        /\ sessionStates' = states
        /\ LET M == Collect([objs |-> objs, episodes |-> episodes, taskLog |-> taskLog,
                             approvals |-> approvals], states, cycles)
           IN  /\ objs' = M.objs /\ episodes' = M.episodes
               /\ taskLog' = M.taskLog /\ approvals' = M.approvals
        /\ lastCall' = [s \in Sessions |-> "stop"]
        /\ UNCHANGED <<now, advances, reg, pane, probe, nObjs, cycles, notes, events>>

\* getActiveMonitoring() (monitor.ts:1016-1018)
getActiveMonitoring == {s \in Sessions : monitoringIntervals[s] # 0}

(***************************************************************************)
(* Environment                                                             *)
(***************************************************************************)
\* the awaited operations that take time on the scale of the clock: the 3 s timeout of
\* the immediate continuation, the continue sequence of the scheduled continuation
\* (three multiplexer commands and two delays) and the calls of the notifier (which
\* retries internally); the other registry and pane calls complete within one clock
\* reading
SlowPcs == {"tryCaptureAfter", "autoSendContinue", "limitGetName", "approvalGetName",
            "taskGetName", "autoNotify", "quotaNotify"}

\* a timer whose callback is due and can run
TickDue(g) ==
    /\ timers[g].on
    /\ now >= timers[g].next
    /\ \E c \in Slots : cycles[c].pc = "idle"

\* a cycle whose 3 s timeout has expired
TimeoutDue(c) == cycles[c].pc = "tryCaptureAfter" /\ now >= cycles[c].wake

\* the clock moves on by d while the engine waits: a timer runs or a cycle is
\* suspended, no timer callback or timeout is due, and no cycle awaits an operation
\* that completes at once; budget bounds the number of advances
Advance(d, budget) ==
    /\ advances < budget
    /\ \A c \in Slots : cycles[c].pc \in {"idle"} \cup SlowPcs
    /\ \A g \in Objs : ~TickDue(g)
    /\ \A c \in Slots : ~TimeoutDue(c)
    /\ (\E g \in Objs : timers[g].on) \/ (\E c \in Slots : cycles[c].pc # "idle")
    /\ now' = now + d
    /\ advances' = advances + 1
    /\ UNCHANGED <<reg, pane, objs, timers, nObjs, lastCall, probe, sessionStates, monitoringIntervals,
                   cycles, notes, events, episodes, taskLog, approvals>>

AdvanceTime(d) == Advance(d, MaxAdvance)

\* the clock of a session that is left alone is followed for one more advance
SteadyAdvance(d) == Advance(d, MaxAdvance + 1)

\* a poll cycle of session s is suspended on a capture of the pane
CapturePcs == {"capturePane", "tryCaptureBefore", "tryCaptureAfter", "approvalCaptureColors"}
CaptureAwaited(s) == \E c \in Slots : cycles[c].sid = s /\ cycles[c].pc \in CapturePcs

\* the program in the pane redraws its screen; the engine sees the pane only through
\* its captures, so a redraw is taken at the moment a capture is about to read it
PaneChange(s, scr) ==
    /\ pane[s].exists
    /\ CaptureAwaited(s)
    /\ scr # Screen(pane[s].text, pane[s].color)
    /\ pane' = [pane EXCEPT ![s].text = scr.text, ![s].color = scr.color]
    /\ UNCHANGED <<now, advances, reg, objs, timers, nObjs, lastCall, probe, sessionStates,
                   monitoringIntervals, cycles, notes, events, episodes, taskLog, approvals>>

\* a poll cycle of session s is suspended on an operation on the pane
PanePcs == CapturePcs \cup {"sessionExists", "stageKeys", "trySendContinue",
                            "autoSendContinue", "quotaEnter"}
PaneAwaited(s) == \E c \in Slots : cycles[c].sid = s /\ cycles[c].pc \in PanePcs

\* a poll cycle of session s is suspended on a registry lookup
RegistryPcs == {"getSession", "tryGetSession", "autoGetSession", "approvalGetSession",
                "quotaGetSession", "startGetSession"}
RegistryAwaited(s) == \E c \in Slots : cycles[c].sid = s /\ cycles[c].pc \in RegistryPcs

\* the multiplexer session ends (seen by the engine at its next pane operation)
PaneKill(s) ==
    /\ pane[s].exists
    /\ PaneAwaited(s)
    /\ pane' = [pane EXCEPT ![s].exists = FALSE]
    /\ UNCHANGED <<now, advances, reg, objs, timers, nObjs, lastCall, probe, sessionStates,
                   monitoringIntervals, cycles, notes, events, episodes, taskLog, approvals>>

\* commands on the pane of s begin to fail although the session exists (the
\* multiplexer does not answer, the output exceeds the buffer of exec)
PaneFault(s) ==
    /\ pane[s].exists /\ ~pane[s].fault
    /\ PaneAwaited(s)
    /\ pane' = [pane EXCEPT ![s].fault = TRUE]
    /\ UNCHANGED <<now, advances, reg, objs, timers, nObjs, lastCall, probe, sessionStates,
                   monitoringIntervals, cycles, notes, events, episodes, taskLog, approvals>>

\* commands on the pane of s succeed again
PaneRecover(s) ==
    /\ pane[s].fault
    /\ PaneAwaited(s)
    /\ pane' = [pane EXCEPT ![s].fault = FALSE]
    /\ UNCHANGED <<now, advances, reg, objs, timers, nObjs, lastCall, probe, sessionStates,
                   monitoringIntervals, cycles, notes, events, episodes, taskLog, approvals>>

\* the session record is removed from the registry
RegistryRemove(s) ==
    /\ reg[s].present
    /\ RegistryAwaited(s)
    /\ reg' = [reg EXCEPT ![s].present = FALSE]
    /\ UNCHANGED <<now, advances, pane, objs, timers, nObjs, lastCall, probe, sessionStates,
                   monitoringIntervals, cycles, notes, events, episodes, taskLog, approvals>>

(***************************************************************************)
(* The poll loop                                                           *)
(***************************************************************************)
FreeSlots == {c \in Slots : cycles[c].pc = "idle"}

\* the setInterval callback of timer g: void this.pollSession(sessionId)
Tick(g) ==
    /\ timers[g].on
    /\ now >= timers[g].next
    /\ FreeSlots # {}
    /\ LET c == CHOOSE x \in FreeSlots : \A y \in FreeSlots : x <= y
       IN  cycles' = [cycles EXCEPT ![c] =
                          [IdleCycle EXCEPT !.pc = "getSession", !.sid = timers[g].sid]]
    /\ timers' = [timers EXCEPT ![g].next = now + PollInterval]
    /\ UNCHANGED <<now, advances, reg, pane, objs, nObjs, lastCall, probe, sessionStates,
                   monitoringIntervals, notes, events, episodes, taskLog, approvals>>

\* pollSession: await getSession (monitor.ts:145-150)
PollGetSession(c) ==
    /\ At(c, "getSession")
    /\ LET s == cycles[c].sid
       IN  IF ~reg[s].present
           THEN StopEffect(s) /\ CommitStopped(c, Return(Cur(c)), s)
           ELSE KeepMaps
                /\ Commit(c, AwaitOp([Cur(c) EXCEPT !.cyc.session = reg[s]],
                                     "sessionExists"))
    /\ KeepEnv /\ UNCHANGED notes

\* pollSession: await sessionExists, then the gate and the quota block (monitor.ts:153-197)
PollSessionExists(c) ==
    /\ At(c, "sessionExists")
    /\ LET s == cycles[c].sid
       IN  IF PaneFails(s)
           THEN StopEffect(s) /\ CommitStopped(c, Return(Cur(c)), s)
           ELSE KeepMaps /\ Commit(c, afterSessionExists(Cur(c)))
    /\ KeepEnv /\ UNCHANGED notes

\* pollSession: await sendRawKeys(command), the stage phase (monitor.ts:184-196)
StageKeys(c) ==
    /\ At(c, "stageKeys")
    /\ LET s == cycles[c].sid
           g == cycles[c].ref
           M1 == IF g # 0 THEN [Cur(c) EXCEPT !.objs[g].quotaCommandSent = TRUE]
                 ELSE Cur(c)
       IN  IF PaneFails(s)
           THEN handlePollingError(c) /\ UNCHANGED pane
           ELSE /\ pane' = [pane EXCEPT ![s].input =
                                Append(@, KeyQuota(cycles[c].session.quotaSchedule.command))]
                /\ KeepMaps
                /\ Commit(c, quotaFire(M1, g, cycles[c].t))
    /\ UNCHANGED <<now, advances, reg, nObjs, lastCall, probe, notes>>

\* pollSession: await capturePane, then analyzeOutput (monitor.ts:200-201)
CapturePane(c) ==
    /\ At(c, "capturePane")
    /\ LET s == cycles[c].sid
       IN  IF PaneFails(s)
           THEN handlePollingError(c)
           ELSE KeepMaps /\ Commit(c, analyzeOutput([Cur(c) EXCEPT !.cyc.out = pane[s].text]))
    /\ KeepEnv /\ UNCHANGED notes


(***************************************************************************)
(* Limit recovery: tryImmediateContinuation and the rest of                *)
(* handleLimitDetected.  A registry lookup that only supplies the session  *)
(* name of a notification is taken together with that notification.        *)
(***************************************************************************)
\* one more continue sequence / limit notification in episode ep of state object g
Count(M, g, ep, kind) ==
    IF g = 0 \/ ep = 0 THEN M
    ELSE [M EXCEPT !.episodes[g][ep][kind] = @ + 1]

\* the catch of tryImmediateContinuation and its "session not found": {success: false}
tryFailedNoResponse(c) == Commit(c, scheduleContinuation(Cur(c), cycles[c].lim))

\* tryImmediateContinuation: await getSession (monitor.ts:769-772)
TryGetSession(c) ==
    /\ At(c, "tryGetSession")
    /\ IF ~reg[cycles[c].sid].present THEN tryFailedNoResponse(c)
       ELSE Commit(c, AwaitOp(Cur(c), "tryCaptureBefore"))
    /\ KeepEnv /\ KeepMaps /\ UNCHANGED notes

\* tryImmediateContinuation: outputBefore = await capturePane (monitor.ts:777)
TryCaptureBefore(c) ==
    /\ At(c, "tryCaptureBefore")
    /\ LET s == cycles[c].sid
       IN  IF PaneFails(s) THEN tryFailedNoResponse(c)
           ELSE Commit(c, AwaitOp([Cur(c) EXCEPT !.cyc.before = pane[s].text],
                                  "trySendContinue"))
    /\ KeepEnv /\ KeepMaps /\ UNCHANGED notes

\* tryImmediateContinuation: await sendContinueCommand (monitor.ts:780, tmux.ts:152-163)
TrySendContinue(c) ==
    /\ At(c, "trySendContinue")
    /\ LET s == cycles[c].sid
       IN  IF PaneFails(s) THEN tryFailedNoResponse(c) /\ UNCHANGED pane
           ELSE /\ ContinueKeys(s)
                /\ Commit(c, AwaitOp([Count(Cur(c), cycles[c].ref, cycles[c].ep, "immediate")
                                         EXCEPT !.cyc.wake = now + ImmediateWait],
                                     "tryCaptureAfter"))
    /\ KeepMaps /\ UNCHANGED <<now, advances, reg, nObjs, lastCall, probe, notes>>

\* handleLimitDetected leaving immediateContinueAttempted raised after a resolved try
continuationSucceededKeepingAttempt(M) ==
    LET g == M.cyc.ref
    IN  AwaitOp([M EXCEPT !.objs[g].lastContinuationTime = now,
                          !.objs[g].awaitingContinuation = FALSE],
                "limitUpdateActive")

\* handleLimitDetected: the immediate continuation succeeded (monitor.ts:411-417)
continuationSucceeded(M) ==
    LET g == M.cyc.ref
    IN  AwaitOp([M EXCEPT !.objs[g].lastContinuationTime = now,
                          !.objs[g].awaitingContinuation = FALSE,
                          !.objs[g].immediateContinueAttempted = FALSE],
                "limitUpdateActive")

\* tryImmediateContinuation: the 3 s timeout, outputAfter = await capturePane and the
\* classification (monitor.ts:783-816), then handleLimitDetected (monitor.ts:411-437)
TryCaptureAfter(c) ==
    /\ At(c, "tryCaptureAfter")
    /\ now >= cycles[c].wake
    /\ LET s == cycles[c].sid
           outputAfter == pane[s].text
       IN  IF PaneFails(s) THEN tryFailedNoResponse(c)
           ELSE IF ContinuationFailed(cycles[c].before, outputAfter)
           THEN Commit(c, scheduleContinuation([Cur(c) EXCEPT !.cyc.lim = outputAfter],
                                               outputAfter))
           ELSE Commit(c, continuationSucceeded(Cur(c)))
    /\ KeepEnv /\ KeepMaps /\ UNCHANGED notes

\* handleLimitDetected: await updateSession({status: 'active'}), return (monitor.ts:418-419)
LimitUpdateActive(c) ==
    /\ At(c, "limitUpdateActive")
    /\ UpdateStatus(cycles[c].sid, "active")
    /\ Commit(c, detectApproval(Cur(c)))
    /\ KeepMaps /\ UNCHANGED <<now, advances, pane, nObjs, lastCall, probe, notes>>

\* handleLimitDetected: await safeNotifyDiscord({type: 'limit'}) (monitor.ts:440-449)
LimitNotify(c) ==
    /\ At(c, "limitGetName")
    /\ NotifyLimit(cycles[c].sid, cycles[c].rt)
    /\ \E ok \in NotifierOutcomes :
           IF NotifierFailureThrown(ok) THEN handlePollingError(c)
           ELSE /\ KeepMaps
                /\ Commit(c, AwaitOp(Count(Cur(c), cycles[c].ref, cycles[c].ep, "limit"),
                                     "limitUpdateWaiting"))
    /\ KeepEnv

\* handleLimitDetected: await updateSession({status: 'waiting'}), return (monitor.ts:452)
LimitUpdateWaiting(c) ==
    /\ At(c, "limitUpdateWaiting")
    /\ UpdateStatus(cycles[c].sid, "waiting")
    /\ Commit(c, detectApproval(Cur(c)))
    /\ KeepMaps /\ UNCHANGED <<now, advances, pane, nObjs, lastCall, probe, notes>>

(***************************************************************************)
(* Scheduled continuation: performAutoContinuation                         *)
(***************************************************************************)
\* performAutoContinuation: await getSession, sessionStates.get (monitor.ts:724-732)
AutoGetSession(c) ==
    /\ At(c, "autoGetSession")
    /\ LET s == cycles[c].sid
       IN  IF ~reg[s].present \/ sessionStates[s] = 0 THEN Commit(c, Return(Cur(c)))
           ELSE Commit(c, AwaitOp([Cur(c) EXCEPT !.cyc.ref = sessionStates[s]],
                                  "autoSendContinue"))
    /\ KeepEnv /\ KeepMaps /\ UNCHANGED notes

\* performAutoContinuation: await sendContinueCommand, the state update (monitor.ts:737-743)
AutoSendContinue(c) ==
    /\ At(c, "autoSendContinue")
    /\ LET s == cycles[c].sid
           g == cycles[c].ref
       IN  IF PaneFails(s) THEN Commit(c, Return(Cur(c))) /\ UNCHANGED pane
           ELSE /\ ContinueKeys(s)
                /\ Commit(c, AwaitOp(
                       [Count(Cur(c), g, Len(episodes[g]), "scheduled")
                           EXCEPT !.objs[g].lastContinuationTime = now,
                                  !.objs[g].awaitingContinuation = FALSE,
                                  !.objs[g].scheduledResetTime = Undefined,
                                  !.objs[g].immediateContinueAttempted = FALSE],
                       "autoUpdate"))
    /\ KeepMaps /\ UNCHANGED <<now, advances, reg, nObjs, lastCall, probe, notes>>

\* performAutoContinuation: await updateSession({status: 'active'}) (monitor.ts:746)
AutoUpdate(c) ==
    /\ At(c, "autoUpdate")
    /\ UpdateStatus(cycles[c].sid, "active")
    /\ Commit(c, AwaitOp(Cur(c), "autoNotify"))
    /\ KeepMaps /\ UNCHANGED <<now, advances, pane, nObjs, lastCall, probe, notes>>

\* performAutoContinuation: await safeNotifyDiscord({type: 'continued'}) (monitor.ts:749-754)
AutoNotify(c) ==
    /\ At(c, "autoNotify")
    /\ Notify(cycles[c].sid, "continued")
    /\ \E ok \in NotifierOutcomes :
           \* a thrown failure would end in the catch of performAutoContinuation
           IF NotifierFailureThrown(ok) THEN Commit(c, Return(Cur(c)))
           ELSE Commit(c, Return(Cur(c)))
    /\ KeepEnv /\ KeepMaps

(***************************************************************************)
(* Approval arbiter                                                        *)
(***************************************************************************)
\* isInteractiveApprovalDialog(colorOutput) for a capture whose escapes are all of
\* one kind: "none" (no escapes), "normal" or "dim"
isInteractiveApprovalDialog(text, color) ==
    LET hasApprovalContent ==
            Lines(text) \cap (QuestionLines \cup NumberedLines \cup SelectionLines) # {}
    IN  IF color = "none" THEN hasApprovalContent
        ELSE hasApprovalContent /\ color = "normal"

\* detectPatterns: await getSession (monitor.ts:278-279)
ApprovalGetSession(c) ==
    /\ At(c, "approvalGetSession")
    /\ IF ~reg[cycles[c].sid].present THEN Commit(c, checkTaskCompletion(Cur(c)))
       ELSE Commit(c, AwaitOp(Cur(c), "approvalCaptureColors"))
    /\ KeepEnv /\ KeepMaps /\ UNCHANGED notes

\* detectPatterns: await capturePaneWithColors, handleApprovalRequest (monitor.ts:280-287)
ApprovalCaptureColors(c) ==
    /\ At(c, "approvalCaptureColors")
    /\ LET s == cycles[c].sid
       IN  IF PaneFails(s) THEN handlePollingError(c)
           ELSE /\ KeepMaps
                /\ IF isInteractiveApprovalDialog(pane[s].text, pane[s].color)
                   THEN Commit(c, handleApprovalRequest(Cur(c)))
                   ELSE Commit(c, checkTaskCompletion(Cur(c)))
    /\ KeepEnv /\ UNCHANGED notes

\* handleApprovalRequest: await safeNotifyDiscord({type: 'approval'}) (monitor.ts:672-684)
ApprovalNotify(c) ==
    /\ At(c, "approvalGetName")
    /\ Notify(cycles[c].sid, "approval")
    /\ \E ok \in NotifierOutcomes :
           IF NotifierFailureThrown(ok) THEN handlePollingError(c)
           ELSE /\ KeepMaps
                /\ Commit(c, AwaitOp([Cur(c) EXCEPT
                                         !.approvals[cycles[c].ref][cycles[c].ap].notes = @ + 1],
                                     "approvalUpdate"))
    /\ KeepEnv

\* handleApprovalRequest: await updateSession({status: 'waiting_approval'}) (monitor.ts:687)
ApprovalUpdate(c) ==
    /\ At(c, "approvalUpdate")
    /\ UpdateStatus(cycles[c].sid, "waiting_approval")
    /\ Commit(c, checkTaskCompletion(Cur(c)))
    /\ KeepMaps /\ UNCHANGED <<now, advances, pane, nObjs, lastCall, probe, notes>>

(***************************************************************************)
(* Idle / completion detector                                              *)
(***************************************************************************)
\* handleTaskCompletion: await safeNotifyDiscord({type: 'task_completed'}) (monitor.ts:368-378)
TaskNotify(c) ==
    /\ At(c, "taskGetName")
    /\ Notify(cycles[c].sid, "task_completed")
    /\ \E ok \in NotifierOutcomes :
           IF NotifierFailureThrown(ok) THEN handlePollingError(c)
           ELSE KeepMaps /\ Commit(c, Return(Cur(c)))
    /\ KeepEnv

(***************************************************************************)
(* Quota scheduler: executeQuotaSchedule                                   *)
(***************************************************************************)
\* executeQuotaSchedule: await getSession (monitor.ts:904-907)
QuotaGetSession(c) ==
    /\ At(c, "quotaGetSession")
    /\ IF ~reg[cycles[c].sid].present THEN Commit(c, Return(Cur(c)))
       ELSE Commit(c, AwaitOp(Cur(c), "quotaEnter"))
    /\ KeepEnv /\ KeepMaps /\ UNCHANGED notes

\* executeQuotaSchedule: await sendRawKeys('Enter'), parseTimeToNextOccurrence
\* (monitor.ts:912-918)
QuotaEnter(c) ==
    /\ At(c, "quotaEnter")
    /\ LET s == cycles[c].sid
           nextExecution == parseTimeToNextOccurrence(cycles[c].session.quotaSchedule.time, now)
       IN  IF PaneFails(s) THEN Commit(c, Return(Cur(c))) /\ UNCHANGED pane
           ELSE /\ pane' = [pane EXCEPT ![s].input = <<>>]
                /\ IF nextExecution = Undefined THEN Commit(c, Return(Cur(c)))
                   ELSE Commit(c, AwaitOp([Cur(c) EXCEPT !.cyc.nextExecution = nextExecution],
                                          "quotaUpdate"))
    /\ KeepMaps /\ UNCHANGED <<now, advances, reg, nObjs, lastCall, probe, notes>>

\* executeQuotaSchedule: await updateSession({quotaSchedule}), the latch reset
\* (monitor.ts:920-935)
QuotaUpdate(c) ==
    /\ At(c, "quotaUpdate")
    /\ LET s == cycles[c].sid
           g == sessionStates[s]
           nextExecution == cycles[c].nextExecution
       IN  /\ reg' = IF reg[s].present
                     THEN [reg EXCEPT ![s].quotaSchedule =
                              [time |-> cycles[c].session.quotaSchedule.time,
                               command |-> generateQuotaMessage(nextExecution),
                               nextExecution |-> nextExecution]]
                     ELSE reg
           /\ Commit(c, AwaitOp(IF g # 0
                                THEN [Cur(c) EXCEPT !.objs[g].quotaCommandSent = FALSE]
                                ELSE Cur(c),
                                "quotaNotify"))
    /\ KeepMaps /\ UNCHANGED <<now, advances, pane, nObjs, lastCall, probe, notes>>

\* executeQuotaSchedule: await safeNotifyDiscord (type 'continued', monitor.ts:941-951)
QuotaNotify(c) ==
    /\ At(c, "quotaNotify")
    /\ Notify(cycles[c].sid, "quota")
    /\ \E ok \in NotifierOutcomes :
           \* a thrown failure would end in the catch of executeQuotaSchedule
           IF NotifierFailureThrown(ok) THEN Commit(c, Return(Cur(c)))
           ELSE Commit(c, Return(Cur(c)))
    /\ KeepEnv /\ KeepMaps

(***************************************************************************)
(* Specification                                                           *)
(***************************************************************************)
\* the operations of the public contract, the registry and the multiplexer
Lifecycle ==
    \/ \E s \in Sessions : StartMonitoring(s)
    \/ \E s \in Sessions : StopMonitoring(s)
    \/ \E s \in Sessions : PaneKill(s)
    \/ \E s \in Sessions : RegistryRemove(s)

\* the poll loop up to analyzeOutput
PollLoop ==
    \/ \E g \in Objs : Tick(g)
    \/ \E c \in Slots : PollGetSession(c)
    \/ \E c \in Slots : PollSessionExists(c)
    \/ \E c \in Slots : CapturePane(c)

LimitRecovery ==
    \/ \E c \in Slots : TryGetSession(c)
    \/ \E c \in Slots : TryCaptureBefore(c)
    \/ \E c \in Slots : TrySendContinue(c)
    \/ \E c \in Slots : TryCaptureAfter(c)
    \/ \E c \in Slots : LimitUpdateActive(c)
    \/ \E c \in Slots : LimitNotify(c)
    \/ \E c \in Slots : LimitUpdateWaiting(c)
    \/ \E c \in Slots : AutoGetSession(c)
    \/ \E c \in Slots : AutoSendContinue(c)
    \/ \E c \in Slots : AutoUpdate(c)
    \/ \E c \in Slots : AutoNotify(c)

ApprovalArbiter ==
    \/ \E c \in Slots : ApprovalGetSession(c)
    \/ \E c \in Slots : ApprovalCaptureColors(c)
    \/ \E c \in Slots : ApprovalNotify(c)
    \/ \E c \in Slots : ApprovalUpdate(c)

IdleDetector == \E c \in Slots : TaskNotify(c)

QuotaScheduler ==
    \/ \E c \in Slots : StageKeys(c)
    \/ \E c \in Slots : QuotaGetSession(c)
    \/ \E c \in Slots : QuotaEnter(c)
    \/ \E c \in Slots : QuotaUpdate(c)
    \/ \E c \in Slots : QuotaNotify(c)

\* a session without quota schedule whose pane shows work and limit notices
Next ==
    \/ Lifecycle
    \/ PollLoop
    \/ LimitRecovery
    \/ \E s \in Sessions, scr \in LimitScreens : PaneChange(s, scr)
    \/ \E d \in LimitTimeSteps : AdvanceTime(d)

Spec == Init /\ [][Next]_vars

\* the same session, started once and left alone: nobody stops monitoring, the pane
\* and the registry record stay
NextSteady ==
    \/ \E s \in Sessions : StartMonitoring(s)
    \/ PollLoop
    \/ LimitRecovery
    \/ \E s \in Sessions, scr \in LimitScreens : PaneChange(s, scr)
    \/ \E d \in LimitTimeSteps : SteadyAdvance(d)

SpecSteady == Init /\ [][NextSteady]_vars

\* a session whose pane shows approval dialogs
NextApproval ==
    \/ Lifecycle
    \/ PollLoop
    \/ ApprovalArbiter
    \/ \E s \in Sessions, scr \in ApprovalScreens : PaneChange(s, scr)
    \/ \E d \in ApprovalTimeSteps : AdvanceTime(d)

SpecApproval == Init /\ [][NextApproval]_vars

\* a session whose pane shows work and an idle prompt
NextIdle ==
    \/ Lifecycle
    \/ PollLoop
    \/ IdleDetector
    \/ \E s \in Sessions, scr \in IdleScreens : PaneChange(s, scr)
    \/ \E d \in IdleTimeSteps : AdvanceTime(d)

SpecIdle == Init /\ [][NextIdle]_vars

\* a session with a quota schedule, started once and left alone, whose pane shows
\* work and limit notices
NextQuota ==
    \/ \E s \in Sessions : StartMonitoring(s)
    \/ PollLoop
    \/ QuotaScheduler
    \/ LimitRecovery
    \/ \E s \in Sessions, scr \in QuotaScreens : PaneChange(s, scr)
    \/ \E d \in LimitTimeSteps : AdvanceTime(d)

SpecQuota == InitQuota /\ [][NextQuota]_vars

\* a session, started once, whose pane shows work and limit notices and whose
\* multiplexer commands fail now and then
NextFaults ==
    \/ \E s \in Sessions : StartMonitoring(s)
    \/ PollLoop
    \/ LimitRecovery
    \/ \E s \in Sessions : PaneFault(s)
    \/ \E s \in Sessions : PaneRecover(s)
    \/ \E s \in Sessions, scr \in LimitScreens : PaneChange(s, scr)
    \/ \E d \in LimitTimeSteps : AdvanceTime(d)

SpecFaults == Init /\ [][NextFaults]_vars

\* the screens of a session that meets a limit, asks for an approval and idles
NotifyScreens ==
    { Screen(<<LWork>>, "normal"),
      Screen(<<LLimitOk>>, "normal"),
      Screen(<<LQuestionA, LSelect>>, "normal"),
      Screen(<<LPrompt>>, "normal") }

NotifyTimeSteps == {ImmediateWait, MIN_IDLE_SECONDS}

\* a session with a quota schedule, started once, that reaches every notification
NextNotify ==
    \/ \E s \in Sessions : StartMonitoring(s)
    \/ PollLoop
    \/ LimitRecovery
    \/ ApprovalArbiter
    \/ IdleDetector
    \/ QuotaScheduler
    \/ \E s \in Sessions, scr \in NotifyScreens : PaneChange(s, scr)
    \/ \E d \in NotifyTimeSteps : AdvanceTime(d)

SpecNotify == InitQuota /\ [][NextNotify]_vars

\* two sessions, each started once, whose multiplexer commands fail now and then
NextPair ==
    \/ \E s \in Sessions : StartCall(s)
    \/ \E c \in Slots : StartInstall(c)
    \/ PollLoop
    \/ \E s \in Sessions : PaneFault(s)
    \/ \E s \in Sessions : PaneRecover(s)
    \/ \E d \in ApprovalTimeSteps : AdvanceTime(d)

SpecPair == InitBoth /\ [][NextPair]_vars

\* the screens of a session that meets a limit while it asks for approvals
EventScreens ==
    { Screen(<<LWork>>, "normal"),
      Screen(<<LLimitOk, LQuestionA, LSelect>>, "normal"),
      Screen(<<LQuestionB, LSelect>>, "normal") }

\* a session, started once and left alone, that meets a limit and asks for approvals
NextEvents ==
    \/ \E s \in Sessions : StartMonitoring(s)
    \/ PollLoop
    \/ LimitRecovery
    \/ ApprovalArbiter
    \/ \E s \in Sessions, scr \in EventScreens : PaneChange(s, scr)
    \/ \E d \in ApprovalTimeSteps : AdvanceTime(d)

SpecEvents == Init /\ [][NextEvents]_vars

\* the screens of a session that works
WorkScreens ==
    { Screen(<<LWork>>, "normal"),
      Screen(<<LBusy>>, "normal"),
      Screen(<<LWork, LBusy>>, "normal") }

\* a session with a quota schedule whose pane shows work, started and stopped
NextQuotaLifecycle ==
    \/ \E s \in Sessions : StartMonitoring(s)
    \/ \E s \in Sessions : StopMonitoring(s)
    \/ PollLoop
    \/ QuotaScheduler
    \/ \E s \in Sessions, scr \in WorkScreens : PaneChange(s, scr)
    \/ \E d \in ApprovalTimeSteps : AdvanceTime(d)

SpecQuotaLifecycle == InitQuotaAny /\ [][NextQuotaLifecycle]_vars

\* the public contract called in any order on two sessions whose panes show work
NextLifecycle ==
    \/ \E s \in Sessions : StartCall(s)
    \/ \E c \in Slots : StartInstall(c)
    \/ \E s \in Sessions : StopMonitoring(s)
    \/ StopAll
    \/ PollLoop
    \/ \E d \in ApprovalTimeSteps : AdvanceTime(d)

SpecLifecycle == InitBoth /\ [][NextLifecycle]_vars

\* wall clocks at construction from which a limit that resets at 9pm is scheduled
\* 5 hours and one second, exactly 5 hours, and 4:59:59 before the reset
CapClocks == {16 * HourSecs - 7, 16 * HourSecs - 6, 16 * HourSecs - 5}

\* session s1 has no quota schedule; the engine is constructed shortly before 4pm
InitCap ==
    /\ now \in CapClocks
    /\ StateInit
    /\ reg = [s \in Sessions |-> SessionRecord(s = "s1", NoQuota)]
    /\ pane = [s \in Sessions |-> NewPane(s = "s1")]

\* the screens of a session that runs into a limit that resets at 9pm
CapScreens ==
    { Screen(<<LWork>>, "normal"),
      Screen(<<LLimitFar>>, "normal") }

\* handleLimitDetected with its immediate try, without performAutoContinuation
ImmediateTry ==
    \/ \E c \in Slots : TryGetSession(c)
    \/ \E c \in Slots : TryCaptureBefore(c)
    \/ \E c \in Slots : TrySendContinue(c)
    \/ \E c \in Slots : TryCaptureAfter(c)
    \/ \E c \in Slots : LimitUpdateActive(c)
    \/ \E c \in Slots : LimitNotify(c)
    \/ \E c \in Slots : LimitUpdateWaiting(c)

\* a session, started once and left alone, that meets a limit around 4pm
NextCap ==
    \/ \E s \in Sessions : StartMonitoring(s)
    \/ PollLoop
    \/ ImmediateTry
    \/ \E s \in Sessions, scr \in CapScreens : PaneChange(s, scr)
    \/ \E d \in ApprovalTimeSteps : AdvanceTime(d)

SpecCap == InitCap /\ [][NextCap]_vars

\* reset-time strings "H", "H:MM", with and without am/pm
TimeStrings ==
    {TimeStr(h, m, p) : h \in {0, 1, 3, 4, 11, 12, 13, 23}, m \in {Undefined, 0, 30, 59},
                        p \in {"", "am", "pm"}}

\* wall clocks of day 1 at which a reset time is parsed
WallTimes ==
    {DaySecs + h * HourSecs + x : h \in {0, 3, 11, 12, 20, 23}, x \in {0, 1, 1800, 3599}}

\* the engine is constructed at some time of day 1
InitTime ==
    /\ now \in WallTimes
    /\ StateInit
    /\ reg = [s \in Sessions |-> SessionRecord(s = "s1", NoQuota)]
    /\ pane = [s \in Sessions |-> NewPane(s = "s1")]

\* parseResetTime(timeStr) is called at the wall time now
ParseResetTimeCall(ts) ==
    /\ probe' = [fn |-> "parseResetTime", ts |-> ts, t |-> now,
                 result |-> parseResetTime(ts, now)]
    /\ UNCHANGED <<now, advances, reg, pane, objs, timers, nObjs, lastCall, sessionStates,
                   monitoringIntervals, cycles, notes, events, episodes, taskLog, approvals>>

NextTime == \E ts \in TimeStrings : ParseResetTimeCall(ts)

SpecTime == InitTime /\ [][NextTime]_vars

\* the screens of a session that meets limits, and lists sessions that met one
EntryScreens ==
    { Screen(<<LWork>>, "normal"),
      Screen(<<LLimitOk>>, "normal"),
      Screen(<<LLimitNone>>, "normal"),
      Screen(<<LLimitRow>>, "normal") }

EntryTimeSteps == {ImmediateWait, CONTINUATION_COOLDOWN}

\* a session, started once and left alone, that meets limits within and after the
\* cooldown of a continuation
NextEntry ==
    \/ \E s \in Sessions : StartMonitoring(s)
    \/ PollLoop
    \/ LimitRecovery
    \/ \E s \in Sessions, scr \in EntryScreens : PaneChange(s, scr)
    \/ \E d \in EntryTimeSteps : AdvanceTime(d)

SpecEntry == Init /\ [][NextEntry]_vars

\* n lines of work output
Work(n) == [i \in 1..n |-> LWork]

\* the screens of a session that is sent "continue" while it shows a limit: the answer
\* is short or long, the limit notice stays in view or scrolls away
TryScreens ==
    { Screen(<<LWork>>, "normal"),
      Screen(<<LLimitOk>>, "normal"),
      Screen(<<LLimitRow>>, "normal"),
      Screen(<<LLimitOk, LPrompt>>, "normal"),
      Screen(<<LLimitOk, LWork>>, "normal"),
      Screen(<<LLimitRow, LReply>>, "normal"),
      Screen(<<LLimitRow, LWork>>, "normal"),
      Screen(<<LLimitOk>> \o Work(RecentLines - 2), "normal"),
      Screen(<<LLimitOk>> \o Work(RecentLines - 1), "normal") }

\* a session, started once, that meets a limit; its pane and its registry record can
\* fail during the immediate try
NextTry ==
    \/ \E s \in Sessions : StartMonitoring(s)
    \/ PollLoop
    \/ ImmediateTry
    \/ \E s \in Sessions : PaneFault(s)
    \/ \E s \in Sessions : PaneRecover(s)
    \/ \E s \in Sessions : RegistryRemove(s)
    \/ \E s \in Sessions, scr \in TryScreens : PaneChange(s, scr)
    \/ \E d \in ApprovalTimeSteps : AdvanceTime(d)

SpecTry == Init /\ [][NextTry]_vars

\* strings of up to MaxText characters over a two-letter alphabet, a character being
\* a piece of text of length 1
MaxText == 4
Alphabet == {"a", "b"}
Strings == UNION {[1..n -> Alphabet] : n \in 0..MaxText}

\* getNewOutput(lastOutput, currentOutput) is called
GetNewOutputCall(lastOutput, currentOutput) ==
    /\ probe' = [fn |-> "getNewOutput", last |-> lastOutput, current |-> currentOutput,
                 result |-> getNewOutput(lastOutput, currentOutput)]
    /\ UNCHANGED <<now, advances, reg, pane, objs, timers, nObjs, lastCall, sessionStates,
                   monitoringIntervals, cycles, notes, events, episodes, taskLog, approvals>>

NextSlice == \E lastOutput \in Strings, currentOutput \in Strings :
                 GetNewOutputCall(lastOutput, currentOutput)

SpecSlice == Init /\ [][NextSlice]_vars

\* captures of up to MaxRows lines around an approval dialog
MaxRows == 3
DialogLines == {LWork, LQuestionA, LQuestionB, LSelect, LOptionYes, LMarkerNo, LDialogLine}
DialogTexts == UNION {[1..n -> DialogLines] : n \in 0..MaxRows}

\* detectApprovalDialog(output) is called
DetectApprovalDialogCall(output) ==
    /\ probe' = [fn |-> "detectApprovalDialog", output |-> output,
                 result |-> detectApprovalDialog(output)]
    /\ UNCHANGED <<now, advances, reg, pane, objs, timers, nObjs, lastCall, sessionStates,
                   monitoringIntervals, cycles, notes, events, episodes, taskLog, approvals>>

NextDialog == \E output \in DialogTexts : DetectApprovalDialogCall(output)

SpecDialog == Init /\ [][NextDialog]_vars

\* a session, started once, that meets a limit and asks for approvals while its
\* multiplexer commands fail now and then
NextOnce ==
    \/ \E s \in Sessions : StartMonitoring(s)
    \/ PollLoop
    \/ LimitRecovery
    \/ ApprovalArbiter
    \/ \E s \in Sessions : PaneFault(s)
    \/ \E s \in Sessions : PaneRecover(s)
    \/ \E s \in Sessions, scr \in EventScreens : PaneChange(s, scr)
    \/ \E d \in ApprovalTimeSteps : AdvanceTime(d)

SpecOnce == Init /\ [][NextOnce]_vars

\* the screens of a session that asks one question before and after a limit
RepeatScreens ==
    { Screen(<<LWork>>, "normal"),
      Screen(<<LLimitOk>>, "normal"),
      Screen(<<LQuestionB, LSelect>>, "normal") }

\* a session that asks for approvals and meets limits, started and stopped
NextRepeat ==
    \/ \E s \in Sessions : StartMonitoring(s)
    \/ \E s \in Sessions : StopMonitoring(s)
    \/ PollLoop
    \/ LimitRecovery
    \/ ApprovalArbiter
    \/ \E s \in Sessions, scr \in RepeatScreens : PaneChange(s, scr)
    \/ \E d \in ApprovalTimeSteps : SteadyAdvance(d)

SpecRepeat == Init /\ [][NextRepeat]_vars

\* the screens of a pane that grows: a limit notice in a list, then the prompt under
\* it, and a notice that is an active terminal state by itself
GrowingScreens ==
    { Screen(<<LWork>>, "normal"),
      Screen(<<LWork, LLimitRow>>, "normal"),
      Screen(<<LWork, LLimitRow, LPrompt>>, "normal"),
      Screen(<<LLimitOk>>, "normal") }

\* a session, started once and left alone, whose pane grows line by line
NextGrowing ==
    \/ \E s \in Sessions : StartMonitoring(s)
    \/ PollLoop
    \/ LimitRecovery
    \/ \E s \in Sessions, scr \in GrowingScreens : PaneChange(s, scr)
    \/ \E d \in ApprovalTimeSteps : AdvanceTime(d)

SpecGrowing == Init /\ [][NextGrowing]_vars

(***************************************************************************)
(* Properties of limit recovery                                            *)
(***************************************************************************)
Episodes(g) == 1..Len(episodes[g])

\* C1: in every limit episode of every state object at most one notification of
\* type 'limit' is handed to the notifier, whatever the cycles and the pane do
AtMostOneLimitNotification ==
    \A g \in Objs : \A e \in Episodes(g) : episodes[g][e].limit <= 1

\* an episode has had its notification, is still awaiting, and a later cycle has
\* read a changed screen that again shows a limit with an active prompt
LimitSeenAgainWhileAwaiting ==
    \E g \in Objs :
        /\ episodes[g] # <<>>
        /\ episodes[g][Len(episodes[g])].limit = 1
        /\ objs[g].awaitingContinuation
        /\ hasLimitMessage(objs[g].lastOutput)
        /\ isActiveTerminalState(objs[g].lastOutput)
        /\ objs[g].lastOutputChangeTime > objs[g].limitDetectedAt

\* C2 as claimed: within one limit episode at most one continue sequence is sent to
\* the pane, the immediate try and the scheduled continuation counted together
AtMostOneContinuePerEpisode ==
    \A g \in Objs : \A e \in Episodes(g) :
        episodes[g][e].immediate + episodes[g][e].scheduled <= 1

\* C2 as amended: within one limit episode at most one continue sequence is sent by
\* the immediate try and at most one by the scheduled continuation
AtMostOneContinueOfEachKind ==
    \A g \in Objs : \A e \in Episodes(g) :
        episodes[g][e].immediate <= 1 /\ episodes[g][e].scheduled <= 1

\* an episode whose immediate try failed and whose deadline then fired
BothContinuesInOneEpisode ==
    \E g \in Objs : \E e \in Episodes(g) :
        episodes[g][e].immediate = 1 /\ episodes[g][e].scheduled = 1

\* C3: no two poll cycles of the same session are in flight at the same time
OneCycleInFlightPerSession ==
    \A c1, c2 \in Slots :
        (c1 # c2 /\ cycles[c1].pc # "idle" /\ cycles[c2].pc # "idle")
            => cycles[c1].sid # cycles[c2].sid

\* the awaited operations of tryImmediateContinuation, of the rest of
\* handleLimitDetected and of performAutoContinuation
TryPcs == {"tryGetSession", "tryCaptureBefore", "trySendContinue", "tryCaptureAfter"}
LimitPcs == {"limitUpdateActive", "limitGetName", "limitUpdateWaiting"}
AutoPcs == {"autoGetSession", "autoSendContinue", "autoUpdate", "autoNotify"}
GatePcs == {"idle", "getSession", "sessionExists"}

\* C4: a cycle that reaches the gate with now >= scheduledResetTime sends the continue
\* sequence: no cycle is past the gate, outside performAutoContinuation, having read
\* the clock at or after a deadline that is still stored; and the deadline is sent
\* for once: at most one cycle is between the gate and the continue sequence
ScheduledContinuationFiresOnce ==
    /\ \A c \in Slots :
           (/\ cycles[c].pc \notin GatePcs \cup AutoPcs
            /\ cycles[c].ref # 0
            /\ objs[cycles[c].ref].scheduledResetTime # Undefined)
               => cycles[c].t < objs[cycles[c].ref].scheduledResetTime
    /\ \A c1, c2 \in Slots :
           (/\ cycles[c1].pc \in {"autoGetSession", "autoSendContinue"}
            /\ cycles[c2].pc \in {"autoGetSession", "autoSendContinue"}
            /\ cycles[c1].ref = cycles[c2].ref)
               => c1 = c2

\* the cycle that read the clock at exactly the 3pm deadline has sent the continue
\* sequence, the deadline is cleared and the episode is settled
ContinueSentAtDeadline ==
    \E c \in Slots :
        /\ cycles[c].pc = "autoUpdate"
        /\ cycles[c].t = 15 * HourSecs
        /\ objs[cycles[c].ref].scheduledResetTime = Undefined
        /\ ~objs[cycles[c].ref].awaitingContinuation
        /\ pane[cycles[c].sid].input = <<>>

\* C5: a limit episode can still settle: while awaitingContinuation is set, a deadline
\* is stored or a cycle is still handling the limit or performing the continuation
ContinuationPendingWhileAwaiting ==
    \A g \in Objs :
        objs[g].awaitingContinuation
            => \/ objs[g].scheduledResetTime # Undefined
               \/ \E c \in Slots : /\ cycles[c].ref = g
                                   /\ cycles[c].pc \in TryPcs \cup LimitPcs \cup AutoPcs

\* C9: awaitingContinuation implies limitDetectedAt is set; an immediate attempt in
\* progress and a stored deadline never coexist, and at most one attempt is in
\* progress; no limit entry happens in an episode after the one that began it
OneContinuationPending ==
    \A g \in Objs :
        /\ objs[g].awaitingContinuation => objs[g].limitDetectedAt # Undefined
        /\ \A c \in Slots :
               (cycles[c].pc \in TryPcs /\ cycles[c].ref = g)
                   => objs[g].scheduledResetTime = Undefined
        /\ \A c1, c2 \in Slots :
               (/\ cycles[c1].pc \in TryPcs /\ cycles[c1].ref = g
                /\ cycles[c2].pc \in TryPcs /\ cycles[c2].ref = g)
                   => c1 = c2
        /\ \A e \in Episodes(g) : episodes[g][e].entries = 1

\* an immediate attempt is waiting for its answer while another cycle has read a
\* changed screen that again shows a limit with an active prompt
LimitSeenAgainDuringAttempt ==
    \E g \in Objs : \E c \in Slots :
        /\ cycles[c].pc = "tryCaptureAfter" /\ cycles[c].ref = g
        /\ objs[g].awaitingContinuation
        /\ hasLimitMessage(objs[g].lastOutput)
        /\ isActiveTerminalState(objs[g].lastOutput)
        /\ objs[g].lastOutputChangeTime > objs[g].limitDetectedAt

\* C10: a step that assigns scheduledResetTime assigns a value in (now, now + 5 hours]
DeadlineInWindowWhenAssigned ==
    [][\A g \in Objs :
          (/\ objs'[g].scheduledResetTime # Undefined
           /\ objs'[g].scheduledResetTime # objs[g].scheduledResetTime)
              => /\ now < objs'[g].scheduledResetTime
                 /\ objs'[g].scheduledResetTime <= now + 5 * HourSecs]_vars

\* a deadline parsed from "resets at 3pm" is stored and the notification is awaited
DeadlineStored ==
    \E g \in Objs : \E c \in Slots :
        /\ cycles[c].pc = "limitGetName" /\ cycles[c].ref = g
        /\ cycles[c].rt = TimeStr(3, Undefined, "pm")
        /\ objs[g].scheduledResetTime = 15 * HourSecs

(***************************************************************************)
(* Properties of the approval arbiter, the idle detector and the quota     *)
(* scheduler                                                               *)
(***************************************************************************)
\* C6: of the approval dialogs a state object handles, two consecutive announcements
\* (approval_needed events) never carry the same question, and every announcement
\* hands at most one 'approval' notification to the notifier
ApprovalAnnouncedOncePerQuestion ==
    \A g \in Objs : \A i \in 1..Len(approvals[g]) :
        /\ approvals[g][i].notes <= 1
        /\ i > 1 => approvals[g][i].question # approvals[g][i - 1].question

\* question A has been announced and notified once, and a later cycle has handled a
\* second, different screen with the same question without a further notification
SameQuestionSeenTwice ==
    \E g \in Objs :
        /\ approvals[g] = <<[question |-> LQuestionA, notes |-> 1, after |-> 0]>>
        /\ objs[g].lastOutput = <<LWork, LQuestionA, LSelect>>
        /\ objs[g].lastApprovalQuestion = LQuestionA
        /\ \A c \in Slots : cycles[c].pc = "idle"
        /\ \E s \in Sessions : notes[s]["approval"] = 1 /\ events[s]["approval_needed"] = 1

\* C7: any two task_completed announcements of a state object are at least the
\* 5-minute cooldown apart
TaskCompletionsCooledDown ==
    \A g \in Objs : \A i \in 2..Len(taskLog[g]) :
        taskLog[g][i] - taskLog[g][i - 1] >= COMPLETION_COOLDOWN

\* a completion has been announced and a later cycle, inside the cooldown, has found
\* the pane idle at its prompt again and has returned without announcing
IdleAgainInsideCooldown ==
    \E g \in Objs :
        /\ Len(taskLog[g]) = 1
        /\ now > taskLog[g][1]
        /\ now - taskLog[g][1] < COMPLETION_COOLDOWN
        /\ now - objs[g].lastOutputChangeTime >= MIN_IDLE_SECONDS
        /\ waitingForInput(objs[g].lastOutput)
        /\ \A c \in Slots : cycles[c].pc = "idle"
        /\ timers[g].on /\ timers[g].next = now + PollInterval

\* C8: whenever quotaCommandSent is set and executeQuotaSchedule is not between its
\* Enter and the reset of the latch, the staged quota command is on the input line of
\* the pane
StagedCommandOnInputLine ==
    \A s \in Sessions :
        (/\ sessionStates[s] # 0
         /\ objs[sessionStates[s]].quotaCommandSent
         /\ \A c \in Slots : cycles[c].pc # "quotaUpdate")
            => \E i \in 1..Len(pane[s].input) :
                   pane[s].input[i] = KeyQuota(reg[s].quotaSchedule.command)

(***************************************************************************)
(* Properties of the public contract and of error handling                 *)
(***************************************************************************)
\* C11: a poll cycle of session s starts (a timer callback calls pollSession) only
\* when the last call of the public contract on s was startMonitoring, never after a
\* stopMonitoring or stopAll that no startMonitoring call has followed
NoPollAfterStop ==
    [][\A c \in Slots :
          (cycles[c].pc = "idle" /\ cycles'[c].pc = "getSession")
              => lastCall[cycles'[c].sid] = "start"]_vars

\* C12: a state object the map holds has retryCount < maxRetries; a caught polling
\* error that leaves retryCount below maxRetries adds one to it and leaves the timer,
\* the maps and the events alone; an 'error' event is emitted only by the step that
\* takes retryCount to maxRetries, one event, and that step cancels the timer and
\* deletes the state, so no second event can follow for that startMonitoring
RetryBudgetEndsMonitoringOnce ==
    /\ [](\A s \in Sessions :
             sessionStates[s] # 0 => objs[sessionStates[s]].retryCount < maxRetries)
    /\ [][\A s \in Sessions :
             LET g == sessionStates[s]
             IN  /\ events'[s]["error"] # events[s]["error"]
                       => /\ events'[s]["error"] = events[s]["error"] + 1
                          /\ g # 0
                          /\ objs[g].retryCount = maxRetries - 1
                          /\ sessionStates'[s] = 0
                          /\ monitoringIntervals'[s] = 0
                          /\ monitoringIntervals[s] # 0
                                 => ~timers'[monitoringIntervals[s]].on
                 /\ (g # 0 /\ sessionStates'[s] = g
                         /\ objs'[g].retryCount # objs[g].retryCount)
                       => /\ objs'[g].retryCount = objs[g].retryCount + 1
                          /\ objs'[g].retryCount < maxRetries
                          /\ UNCHANGED <<timers, monitoringIntervals, events>>]_vars

\* three captures of a pane that still exists have failed: the session is no longer
\* monitored and one 'error' event has been emitted
BudgetExhausted ==
    \E s \in Sessions :
        /\ events[s]["error"] = 1
        /\ pane[s].exists
        /\ sessionStates[s] = 0 /\ monitoringIntervals[s] = 0
        /\ \A g \in Objs : ~timers[g].on

\* C13: retryCount counts consecutive failures: when a poll cycle completes without
\* error (it returns, no command on the pane failing, retryCount not incremented),
\* retryCount is 0
RetryCountIsConsecutive ==
    [][\A c \in Slots :
          LET s == cycles[c].sid
              g == sessionStates[s]
          IN  (/\ cycles[c].pc \notin {"idle", "startGetSession"}
               /\ cycles'[c].pc = "idle"
               /\ ~PaneFails(s)
               /\ g # 0 /\ sessionStates'[s] = g
               /\ objs'[g].retryCount = objs[g].retryCount)
                  => objs'[g].retryCount = 0]_vars

\* C14: a step of a poll cycle whose command on the pane fails (capture or send,
\* anywhere after the pane-exists check) ends the cycle and adds one to retryCount
\* (or exhausts the budget and stops monitoring)
PaneFailuresCounted ==
    [][\A c \in Slots :
          LET s == cycles[c].sid
              g == sessionStates[s]
          IN  (/\ cycles[c].pc \in PanePcs \ {"sessionExists"}
               /\ PaneFails(s)
               /\ cycles'[c] # cycles[c]
               /\ g # 0)
                  => /\ cycles'[c].pc = "idle"
                     /\ \/ sessionStates'[s] = 0
                        \/ objs'[g].retryCount = objs[g].retryCount + 1]_vars

\* the awaited calls of safeNotifyDiscord and the await each is followed by
NotifyPcs == {"limitGetName", "autoNotify", "approvalGetName", "taskGetName", "quotaNotify"}
AfterNotify(pc) ==
    CASE pc = "limitGetName" -> "limitUpdateWaiting"
      [] pc = "approvalGetName" -> "approvalUpdate"
      [] OTHER -> "idle"

\* C15: whatever the notifier answers, the step that hands a notification over (at
\* each of the five sites) leaves the runtime state of every monitored session, the
\* timers, both maps, the registry and the events as they are, and the cycle goes on
\* to the same next operation
NotifierOutcomeIgnored ==
    [][\A c \in Slots :
          (cycles[c].pc \in NotifyPcs /\ cycles'[c] # cycles[c])
              => /\ cycles'[c].pc = AfterNotify(cycles[c].pc)
                 /\ \A s \in Sessions :
                        sessionStates[s] # 0
                            => objs'[sessionStates[s]] = objs[sessionStates[s]]
                 /\ UNCHANGED <<timers, monitoringIntervals, sessionStates, reg, events>>]_vars

\* the 'limit' notification has been handed over and the cycle goes on to write the
\* status 'waiting'
LimitNotificationHandedOver ==
    \E c \in Slots :
        /\ cycles[c].pc = "limitUpdateWaiting"
        /\ notes[cycles[c].sid]["limit"] = 1
        /\ sessionStates[cycles[c].sid] = cycles[c].ref
        /\ objs[cycles[c].ref].retryCount = 0

\* C16: the step in which a poll cycle finds the registry record missing, or the
\* pane gone, ends the cycle, cancels the timer the map holds, deletes both map
\* entries, and emits no event, hands over no notification, writes nothing to the
\* registry and sends no key to the pane
SessionGoneStopsSilently ==
    [][\A c \in Slots :
          LET s == cycles[c].sid
          IN  (/\ \/ cycles[c].pc = "getSession" /\ ~reg[s].present
                  \/ cycles[c].pc = "sessionExists" /\ PaneFails(s)
               /\ cycles'[c] # cycles[c])
                  => /\ cycles'[c].pc = "idle"
                     /\ sessionStates'[s] = 0
                     /\ monitoringIntervals'[s] = 0
                     /\ monitoringIntervals[s] # 0 => ~timers'[monitoringIntervals[s]].on
                     /\ UNCHANGED <<events, notes, reg, pane>>]_vars

\* the pane of a session nobody stopped is gone, a cycle has found that out, and
\* monitoring has ended without an event or a notification
StoppedBecausePaneGone ==
    \E s \in Sessions :
        /\ lastCall[s] = "start" /\ reg[s].present /\ ~pane[s].exists
        /\ sessionStates[s] = 0 /\ monitoringIntervals[s] = 0
        /\ \A g \in Objs : ~timers[g].on
        /\ \A c \in Slots : cycles[c].pc = "idle"
        /\ \A t \in EventTypes : events[s][t] = 0
        /\ \A t \in NoteTypes : notes[s][t] = 0

\* what belongs to session s is left as it is by a step
Untouched(s) ==
    /\ reg'[s] = reg[s] /\ pane'[s] = pane[s]
    /\ sessionStates'[s] = sessionStates[s]
    /\ monitoringIntervals'[s] = monitoringIntervals[s]
    /\ sessionStates[s] # 0 => objs'[sessionStates[s]] = objs[sessionStates[s]]
    /\ monitoringIntervals[s] # 0
           => timers'[monitoringIntervals[s]] = timers[monitoringIntervals[s]]
    /\ events'[s] = events[s] /\ notes'[s] = notes[s]

\* C17: a step of a poll cycle or of a startMonitoring call of session s (the end of
\* monitoring by an exhausted retry budget included) leaves the registry record, the
\* pane, the map entries, the runtime state, the timer, the events and the
\* notifications of every other session as they are
SessionsIsolated ==
    [][\A c \in Slots :
          (cycles[c].pc # "idle" /\ cycles'[c] # cycles[c])
              => \A s \in Sessions \ {cycles[c].sid} : Untouched(s)]_vars

\* the retry budget of one session is exhausted, its monitoring has ended with an
\* 'error' event, and the other session is monitored, its timer running
OneSessionExhausted ==
    \E s1, s2 \in Sessions :
        /\ s1 # s2
        /\ events[s1]["error"] = 1 /\ sessionStates[s1] = 0
        /\ sessionStates[s2] # 0 /\ monitoringIntervals[s2] # 0
        /\ timers[monitoringIntervals[s2]].on
        /\ events[s2]["error"] = 0

\* C18: events are emitted in the order of the cycles: when a poll cycle emits an
\* event, no cycle of the same session that started at a later tick has emitted one
EventsInCycleOrder ==
    [][\A c, d \in Slots :
          (/\ cycles[c].pc # "idle" /\ cycles[d].pc # "idle"
           /\ cycles[c].sid = cycles[d].sid
           /\ cycles'[c] # cycles[c]
           /\ events'[cycles[c].sid] # events[cycles[c].sid]
           /\ cycles[d].emits > 0)
              => cycles[d].t <= cycles[c].t]_vars

(***************************************************************************)
(* Properties of the quota scheduler's phases                              *)
(***************************************************************************)
\* C19: a quota fire closes the gate behind it: the step that sends Enter goes on to
\* the registry update with a nextExecution after now, and the update stores that
\* nextExecution and clears quotaCommandSent
QuotaFireClosesGate ==
    [][\A c \in Slots :
          LET s == cycles[c].sid
              g == sessionStates[s]
          IN  /\ (cycles[c].pc = "quotaEnter" /\ ~PaneFails(s) /\ cycles'[c] # cycles[c])
                     => /\ cycles'[c].pc = "quotaUpdate"
                        /\ cycles'[c].nextExecution > now
              /\ (/\ cycles[c].pc = "quotaUpdate" /\ cycles'[c] # cycles[c]
                   /\ g # 0 /\ reg[s].present)
                     => /\ ~objs'[g].quotaCommandSent
                        /\ reg'[s].quotaSchedule.nextExecution = cycles[c].nextExecution]_vars

\* C20: the input line of a pane never holds the quota command more than once: it is
\* typed at most once between two fires, whichever cycle types it
QuotaCommandTypedOnce ==
    \A s \in Sessions :
        Cardinality({i \in 1..Len(pane[s].input) : pane[s].input[i].k = "quota"}) <= 1

(***************************************************************************)
(* Boundaries of the idle window, the cooldowns and the sanity cap         *)
(***************************************************************************)
\* the step of cycle c in which checkTaskCompletion looks at a capture that equals
\* lastOutput, of a session that awaits no continuation and waits at its prompt
IdleCheck(c) ==
    LET s == cycles[c].sid
        g == sessionStates[s]
    IN  /\ cycles[c].pc = "capturePane" /\ cycles'[c] # cycles[c]
        /\ ~PaneFails(s) /\ g # 0
        /\ pane[s].text = objs[g].lastOutput
        /\ ~objs[g].awaitingContinuation
        /\ waitingForInput(pane[s].text) /\ notProcessing(pane[s].text)

IdleTime(c) == now - objs[sessionStates[cycles[c].sid]].lastOutputChangeTime
SinceCompletion(c) ==
    now - objs[sessionStates[cycles[c].sid]].lastTaskCompletionNotification
NeverCompleted(c) ==
    objs[sessionStates[cycles[c].sid]].lastTaskCompletionNotification = Undefined

\* the step emits task_completed and goes on to hand over the notification
Announces(c) ==
    /\ events'[cycles[c].sid]["task_completed"] = events[cycles[c].sid]["task_completed"] + 1
    /\ cycles'[c].pc = "taskGetName"

\* C21 as claimed: with the other idle preconditions satisfied, a cycle whose idle time
\* is exactly 10 s emits no task_completed, one whose idle time is greater does
IdleWindowOpenAtTen ==
    [][\A c \in Slots :
          (IdleCheck(c) /\ (NeverCompleted(c) \/ SinceCompletion(c) > COMPLETION_COOLDOWN))
              => /\ IdleTime(c) = 10 => ~Announces(c)
                 /\ IdleTime(c) > 10 => Announces(c)]_vars

\* C21 as amended: with the other idle preconditions satisfied, a cycle whose idle time
\* is 10 s or more emits task_completed, one whose idle time is less than 10 s does not
IdleWindowClosedAtTen ==
    [][\A c \in Slots :
          (IdleCheck(c) /\ (NeverCompleted(c) \/ SinceCompletion(c) > COMPLETION_COOLDOWN))
              => /\ IdleTime(c) >= 10 => Announces(c)
                 /\ IdleTime(c) < 10 => ~Announces(c)]_vars

\* a completion has been announced by the cycle that ran exactly 10 s after the last
\* change of the output
AnnouncedAtTenSeconds ==
    \E g \in Objs :
        /\ Len(taskLog[g]) = 1
        /\ taskLog[g][1] = objs[g].lastOutputChangeTime + 10
        /\ objs[g].lastTaskCompletionNotification = taskLog[g][1]

\* C22 as claimed: with the other idle preconditions satisfied, a cycle in which exactly
\* 5 minutes have elapsed since lastTaskCompletionNotification announces no completion
CooldownHoldsAtFiveMinutes ==
    [][\A c \in Slots :
          (IdleCheck(c) /\ IdleTime(c) > MIN_IDLE_SECONDS /\ ~NeverCompleted(c))
              => (SinceCompletion(c) = 300 => ~Announces(c))]_vars

\* C22 as amended: with the other idle preconditions satisfied, a cycle in which 5
\* minutes or more have elapsed since lastTaskCompletionNotification announces a
\* completion, one in which less than 5 minutes have elapsed announces none
CooldownOverAtFiveMinutes ==
    [][\A c \in Slots :
          (IdleCheck(c) /\ IdleTime(c) > MIN_IDLE_SECONDS /\ ~NeverCompleted(c))
              => /\ SinceCompletion(c) >= 300 => Announces(c)
                 /\ SinceCompletion(c) < 300 => ~Announces(c)]_vars

\* two completions have been announced exactly 5 minutes apart
AnnouncedAgainAtFiveMinutes ==
    \E g \in Objs :
        /\ Len(taskLog[g]) = 2
        /\ taskLog[g][2] = taskLog[g][1] + 300

\* the step in which cycle c leaves the immediate try for the schedule
SchedulesAfterTry(c) ==
    /\ cycles[c].pc \in TryPcs
    /\ cycles'[c].pc \notin TryPcs \cup {"limitUpdateActive"}

\* C23 as claimed: a reset time that parses to a deadline exactly 5 hours after now
\* yields no schedule (scheduledResetTime stays unset), and the cycle goes on to the
\* limit notification
NoScheduleAtFiveHours ==
    [][\A c \in Slots :
          (/\ SchedulesAfterTry(c)
           /\ cycles'[c].rt # NoTimeStr
           /\ NextClockTime(cycles'[c].rt, now) - now = 5 * HourSecs)
              => /\ objs'[cycles[c].ref].scheduledResetTime = Undefined
                 /\ cycles'[c].pc = "limitGetName"]_vars

\* C23 as amended: a reset time that parses to a deadline exactly 5 hours after now, or
\* less, is stored as scheduledResetTime; one more than 5 hours after now yields no
\* schedule; in both cases the cycle goes on to the limit notification
ScheduleUpToFiveHours ==
    [][\A c \in Slots :
          (SchedulesAfterTry(c) /\ cycles'[c].rt # NoTimeStr)
              => LET d == NextClockTime(cycles'[c].rt, now)
                     g == cycles[c].ref
                 IN  /\ d - now <= 5 * HourSecs => objs'[g].scheduledResetTime = d
                     /\ d - now > 5 * HourSecs => objs'[g].scheduledResetTime = Undefined
                     /\ cycles'[c].pc = "limitGetName"]_vars

\* at 4pm sharp a limit that resets at 9pm has been scheduled for 9pm, and the limit
\* notification is awaited
ScheduledAtFiveHours ==
    \E c \in Slots :
        /\ cycles[c].pc = "limitGetName"
        /\ cycles[c].rt = TimeStr(9, Undefined, "pm")
        /\ now = 16 * HourSecs
        /\ objs[cycles[c].ref].scheduledResetTime = 21 * HourSecs

(***************************************************************************)
(* Properties of parseResetTime                                            *)
(***************************************************************************)
\* the hour of the 12-hour conversion: pm and H # 12 adds 12, am and H = 12 gives 0
ConvertedHour(ts) ==
    IF ts.p = "pm" /\ ts.h # 12 THEN ts.h + 12
    ELSE IF ts.p = "am" /\ ts.h = 12 THEN 0 ELSE ts.h
StatedMinute(ts) == IF ts.m = Undefined THEN 0 ELSE ts.m

\* the string names a time of day
IsClockTime(ts) == ConvertedHour(ts) \in 0..23 /\ StatedMinute(ts) \in 0..59

\* the clock reading of an instant (Date.getHours, getMinutes, getSeconds)
HourOf(d) == (d % DaySecs) \div HourSecs
MinuteOf(d) == (d % HourSecs) \div 60
SecondOf(d) == d % 60

\* the earliest instant strictly after t whose clock reads hh:mm:00
EarliestAfter(t, hh, mm) == t + 1 + ((hh * HourSecs + mm * 60 - (t + 1)) % DaySecs)

LimitEntered(s) ==
    LET g == sessionStates[s]
    IN  \/ events'[s]["limit_detected"] # events[s]["limit_detected"]
        \/ /\ g # 0 /\ sessionStates'[s] = g
           /\ \/ objs'[g].limitDetectedAt # objs[g].limitDetectedAt
              \/ objs'[g].awaitingContinuation /\ ~objs[g].awaitingContinuation

\* the step in which cycle c analyses its capture of the pane
Analyses(c) ==
    /\ cycles[c].pc = "capturePane" /\ cycles'[c] # cycles[c]
    /\ ~PaneFails(cycles[c].sid)
    /\ sessionStates[cycles[c].sid] # 0

\* the slice that step analyses
SliceOf(c) ==
    getNewOutput(objs[sessionStates[cycles[c].sid]].lastOutput, pane[cycles[c].sid].text)

\* what a limit episode writes is left as it is by the step of cycle c, and the cycle
\* does not go on to the immediate try, the schedule or the notification
NoLimitAction(c) ==
    LET s == cycles[c].sid
        g == sessionStates[s]
    IN  /\ objs'[g].limitDetectedAt = objs[g].limitDetectedAt
        /\ objs'[g].awaitingContinuation = objs[g].awaitingContinuation
        /\ objs'[g].immediateContinueAttempted = objs[g].immediateContinueAttempted
        /\ objs'[g].scheduledResetTime = objs[g].scheduledResetTime
        /\ reg'[s] = reg[s]
        /\ pane'[s] = pane[s]
        /\ events'[s]["limit_detected"] = events[s]["limit_detected"]
        /\ notes'[s] = notes[s]
        /\ episodes'[g] = episodes[g]
        /\ cycles'[c].pc \notin TryPcs \cup LimitPcs \cup AutoPcs

\* C25: a limit episode is entered only by a cycle whose analysed slice contains limit
\* text and an active-terminal marker, with awaitingContinuation false and at least 5
\* minutes since lastContinuationTime (or no continuation yet); a slice with limit text
\* and no active-terminal marker causes no action
LimitEntryOnlyWhenAllowed ==
    [][/\ \A s \in Sessions :
              LimitEntered(s)
                  => \E c \in Slots :
                         LET o == objs[sessionStates[s]]
                         IN  /\ cycles[c].sid = s /\ Analyses(c)
                             /\ hasLimitMessage(SliceOf(c))
                             /\ isActiveTerminalState(SliceOf(c))
                             /\ ~o.awaitingContinuation
                             /\ \/ o.lastContinuationTime = Undefined
                                \/ now - o.lastContinuationTime >= 300
       /\ \A c \in Slots :
              (/\ Analyses(c)
               /\ hasLimitMessage(SliceOf(c))
               /\ ~isActiveTerminalState(SliceOf(c)))
                  => NoLimitAction(c)]_vars

\* a second limit episode has been entered, 5 minutes or more after the continuation
\* that ended the first
EnteredAgainAfterCooldown ==
    \E g \in Objs :
        /\ Len(episodes[g]) = 2
        /\ objs[g].awaitingContinuation
        /\ objs[g].lastContinuationTime # Undefined
        /\ objs[g].limitDetectedAt - objs[g].lastContinuationTime >= 300

\* C26: a limit detection inside the 5-minute cooldown leaves limitDetectedAt,
\* awaitingContinuation, immediateContinueAttempted, scheduledResetTime and the
\* registry record as they are, sends no key, emits no limit_detected and hands over no
\* notification
CooldownDetectionChangesNothing ==
    [][\A c \in Slots :
          LET o == objs[sessionStates[cycles[c].sid]]
          IN  (/\ Analyses(c)
               /\ hasLimitMessage(SliceOf(c))
               /\ isActiveTerminalState(SliceOf(c))
               /\ ~o.awaitingContinuation
               /\ o.lastContinuationTime # Undefined
               /\ now - o.lastContinuationTime < 300)
                  => NoLimitAction(c)]_vars

\* a continuation has ended an episode, and inside its cooldown a cycle has analysed a
\* new screen that shows a limit with an active prompt and has returned
LimitSeenInsideCooldown ==
    \E g \in Objs :
        /\ Len(episodes[g]) = 1
        /\ ~objs[g].awaitingContinuation
        /\ objs[g].lastContinuationTime # Undefined
        /\ objs[g].lastOutputChangeTime >= objs[g].lastContinuationTime
        /\ objs[g].lastOutputChangeTime - objs[g].lastContinuationTime < 300
        /\ hasLimitMessage(objs[g].lastOutput)
        /\ isActiveTerminalState(objs[g].lastOutput)
        /\ \A c \in Slots : cycles[c].pc = "idle"

ArbiterSeesEveryChangedSlice ==
    [][\A c \in Slots :
          LET s == cycles[c].sid
              o == objs[sessionStates[s]]
          IN  (/\ Analyses(c)
               /\ pane[s].text # o.lastOutput
               /\ ~LimitEntered(s)
               /\ detectApprovalDialog(SliceOf(c))
               /\ ApprovalQuestion(SliceOf(c)) # o.lastApprovalQuestion)
                  => cycles'[c].pc = "approvalGetSession"]_vars

(***************************************************************************)
(* Properties of the immediate try                                         *)
(***************************************************************************)
\* the outcome of the immediate try as the claim classifies it from the two captures
ClaimedOutcome(before, after) ==
    LET recent == LastLines(SplitLines(after), 15)
    IN  IF ~hasLimitMessage(after) THEN "resolved"
        ELSE IF NewContentLength(before, after) < 50 THEN "failed"
        ELSE IF hasLimitMessage(recent) /\ isActiveTerminalState(recent) THEN "failed"
        ELSE "resolved"

\* where handleLimitDetected goes on after the immediate try: to the schedule and the
\* notification when it failed, to the status 'active' when it resolved
AfterOutcome(outcome) == IF outcome = "failed" THEN "limitGetName" ELSE "limitUpdateActive"

\* C29: the immediate try is classified from its captures: no limit text after ->
\* resolved; limit text and fewer than 50 characters of new content -> failed; limit
\* text and 50 or more -> failed iff the last 15 lines (of after split at its
\* newlines) show limit text and an active-terminal marker, else resolved; a registry
\* or pane error during the attempt -> failed
ImmediateTryClassified ==
    [][\A c \in Slots :
          LET s == cycles[c].sid
          IN  (cycles[c].pc \in TryPcs /\ cycles'[c] # cycles[c])
                  => /\ (cycles[c].pc = "tryGetSession" /\ ~reg[s].present)
                            => cycles'[c].pc = AfterOutcome("failed")
                     /\ (cycles[c].pc # "tryGetSession" /\ PaneFails(s))
                            => cycles'[c].pc = AfterOutcome("failed")
                     /\ (cycles[c].pc = "tryCaptureAfter" /\ ~PaneFails(s))
                            => cycles'[c].pc =
                                   AfterOutcome(ClaimedOutcome(cycles[c].before, pane[s].text))]_vars

\* an immediate try has resolved although the capture after it still holds the limit
\* notice: 14 lines of new output have moved it out of the last 15 lines
ResolvedWithLimitInHistory ==
    \E c \in Slots :
        /\ cycles[c].pc = "limitUpdateActive"
        /\ cycles[c].before = <<LLimitOk>>
        /\ pane[cycles[c].sid].text = <<LLimitOk>> \o Work(14)
        /\ ~objs[cycles[c].ref].awaitingContinuation

\* the step in which the immediate try of cycle c is classified as resolved
TryResolves(c) ==
    /\ cycles[c].pc = "tryCaptureAfter"
    /\ cycles'[c].pc = "limitUpdateActive"

\* the step of cycle c that follows a resolved try: the write of status 'active'
WritesActive(c) ==
    /\ cycles[c].pc = "limitUpdateActive"
    /\ cycles'[c] # cycles[c]

\* C30: when the immediate try is classified resolved the episode ends in that cycle:
\* lastContinuationTime is set to now, awaitingContinuation and
\* immediateContinueAttempted are cleared, scheduledResetTime stays unset, status
\* 'active' is written (to the record the registry holds), and the cycle sends neither
\* a 'limit' nor a 'continued' notification and goes on to nothing of the limit path
ResolvedTryEndsEpisode ==
    [][\A c \in Slots :
          LET s == cycles[c].sid
              g == cycles[c].ref
          IN  /\ TryResolves(c)
                  => /\ objs'[g].lastContinuationTime = now
                     /\ ~objs'[g].awaitingContinuation
                     /\ ~objs'[g].immediateContinueAttempted
                     /\ objs[g].scheduledResetTime = Undefined
                     /\ objs'[g].scheduledResetTime = Undefined
                     /\ notes' = notes
                     /\ timers' = timers
              /\ WritesActive(c)
                  => /\ reg[s].present => reg'[s].status = "active"
                     /\ objs[g].scheduledResetTime = Undefined
                     /\ objs'[g].scheduledResetTime = Undefined
                     /\ ~objs'[g].awaitingContinuation
                     /\ ~objs'[g].immediateContinueAttempted
                     /\ notes'[s]["limit"] = notes[s]["limit"]
                     /\ notes'[s]["continued"] = notes[s]["continued"]
                     /\ episodes[g][cycles[c].ep].limit = 0
                     /\ episodes[g][cycles[c].ep].scheduled = 0
                     /\ cycles'[c].pc \notin TryPcs \cup LimitPcs \cup AutoPcs]_vars

\* a cycle whose immediate try resolved has written status 'active' and is done, the
\* session having had no notification and no deadline
EpisodeEndedWithoutNotification ==
    \E s \in Sessions :
        LET g == sessionStates[s]
        IN  /\ g # 0
            /\ objs[g].lastContinuationTime # Undefined
            /\ objs[g].limitDetectedAt # Undefined
            /\ ~objs[g].awaitingContinuation
            /\ objs[g].scheduledResetTime = Undefined
            /\ reg[s].present /\ reg[s].status = "active"
            /\ notes[s]["limit"] = 0 /\ notes[s]["continued"] = 0
            /\ \A c \in Slots : cycles[c].pc = "idle"

(***************************************************************************)
(* Properties of the failed immediate try and of the scheduled             *)
(* continuation                                                            *)
(***************************************************************************)
\* the step in which the immediate try of cycle c fails
TryFails(c) ==
    /\ cycles[c].pc \in TryPcs
    /\ cycles'[c] # cycles[c]
    /\ cycles'[c].pc \notin TryPcs \cup {"limitUpdateActive"}

\* the text the reset time is taken from when the try of cycle c fails: the capture
\* after the continue sequence, or the detected slice when the attempt gave no response
TextOfFailedTry(c) ==
    IF cycles[c].pc = "tryCaptureAfter" /\ ~PaneFails(cycles[c].sid)
    THEN pane[cycles[c].sid].text
    ELSE cycles[c].lim

\* C31: when the immediate try fails, exactly one 'limit' notification is sent and
\* status 'waiting' is written whether or not a deadline could be derived:
\* scheduledResetTime is set iff a reset time was extracted and parsed to a deadline
\* within the cap; the resetTime of the notification is the raw extracted string, or
\* 'Monitoring for availability' when nothing was extracted
FailedTryNotifiesOnceAndWaits ==
    [][\A c \in Slots :
          LET s == cycles[c].sid
              g == cycles[c].ref
              raw == extractResetTime(TextOfFailedTry(c))
          IN  /\ TryFails(c)
                  => /\ cycles'[c].pc = "limitGetName"
                     /\ cycles'[c].rt = raw
                     /\ objs[g].scheduledResetTime = Undefined
                     /\ objs'[g].scheduledResetTime # Undefined
                            <=> /\ raw # NoTimeStr
                                /\ NextClockTime(raw, now) - now <= 5 * HourSecs
                     /\ objs'[g].scheduledResetTime # Undefined
                            => objs'[g].scheduledResetTime = NextClockTime(raw, now)
                     /\ notes' = notes
              /\ (cycles[c].pc = "limitGetName" /\ cycles'[c] # cycles[c])
                  => /\ cycles'[c].pc = "limitUpdateWaiting"
                     /\ notes'[s]["limit"] = notes[s]["limit"] + 1
                     /\ notes'[s]["resetTime"] =
                            IF cycles[c].rt = NoTimeStr THEN MonitoringForAvailability
                            ELSE cycles[c].rt
                     /\ episodes'[g][cycles[c].ep].limit = 1
              /\ (cycles[c].pc = "limitUpdateWaiting" /\ cycles'[c] # cycles[c])
                  => /\ reg[s].present => reg'[s].status = "waiting"
                     /\ notes' = notes
                     /\ episodes[g][cycles[c].ep].limit = 1
                     /\ cycles'[c].pc \notin TryPcs \cup LimitPcs \cup AutoPcs]_vars

\* a failed try has been announced with 'Monitoring for availability', no deadline
\* stored, and status 'waiting' written
WaitingWithoutDeadline ==
    \E s \in Sessions :
        LET g == sessionStates[s]
        IN  /\ g # 0
            /\ notes[s]["limit"] = 1
            /\ notes[s]["resetTime"] = MonitoringForAvailability
            /\ objs[g].awaitingContinuation
            /\ objs[g].immediateContinueAttempted
            /\ objs[g].scheduledResetTime = Undefined
            /\ reg[s].present /\ reg[s].status = "waiting"

\* C32: a cycle in which the scheduled-continuation gate fires clears
\* scheduledResetTime, sends the continue sequence, sets lastContinuationTime, clears
\* awaitingContinuation and immediateContinueAttempted, writes status 'active', sends
\* exactly one 'continued' notification, and does nothing else: it stages and fires no
\* quota command, captures no pane and runs no limit, approval or idle detection
GateCycleOnlyContinues ==
    [][\A c \in Slots :
          LET s == cycles[c].sid
              g == cycles[c].ref
              step == cycles'[c] # cycles[c]
          IN  /\ (cycles[c].pc = "sessionExists" /\ cycles'[c].pc = "autoGetSession")
                  => /\ objs'[cycles'[c].ref].scheduledResetTime = Undefined
                     /\ notes' = notes /\ events' = events /\ pane' = pane
              /\ (cycles[c].pc = "autoGetSession" /\ step)
                  => /\ cycles'[c].pc = "autoSendContinue"
                     /\ notes' = notes /\ events' = events /\ pane' = pane
              /\ (cycles[c].pc = "autoSendContinue" /\ step)
                  => /\ cycles'[c].pc = "autoUpdate"
                     /\ pane'[s].input = <<>>
                     /\ objs'[g].lastContinuationTime = now
                     /\ ~objs'[g].awaitingContinuation
                     /\ ~objs'[g].immediateContinueAttempted
                     /\ objs'[g].scheduledResetTime = Undefined
                     /\ objs'[g].lastOutput = objs[g].lastOutput
                     /\ objs'[g].quotaCommandSent = objs[g].quotaCommandSent
                     /\ notes' = notes /\ events' = events
              /\ (cycles[c].pc = "autoUpdate" /\ step)
                  => /\ cycles'[c].pc = "autoNotify"
                     /\ reg[s].present => reg'[s].status = "active"
                     /\ notes' = notes /\ events' = events /\ pane' = pane
              /\ (cycles[c].pc = "autoNotify" /\ step)
                  => /\ cycles'[c].pc = "idle"
                     /\ notes'[s] = [notes[s] EXCEPT !["continued"] = @ + 1]
                     /\ events' = events /\ pane' = pane]_vars

(***************************************************************************)
(* Properties of getNewOutput and detectApprovalDialog                     *)
(***************************************************************************)
\* the places at which last occurs in current: the number of characters before it
Occurrences(last, current) ==
    {i \in 0..(Len(current) - Len(last)) : SubSeq(current, i + 1, i + Len(last)) = last}

\* C33: getNewOutput(last, current) is the whole current when last is empty or does
\* not occur in current; when last occurs in current it is the part of current that
\* follows that occurrence (x for current = last ++ x), also when last occurs in
\* current but not as a prefix
NewOutputFollowsLastOutput ==
    probe.fn = "getNewOutput"
        => LET last == probe.last
               current == probe.current
           IN  IF last = <<>> \/ Occurrences(last, current) = {}
               THEN probe.result = current
               ELSE \E i \in Occurrences(last, current) :
                        probe.result = SubSeq(current, i + Len(last) + 1, Len(current))

\* what a line of a capture shows of an approval dialog: the question "Do you want to
\* (make this edit to|create|proceed)", a numbered option "N. Yes", the selection marker
Shows(l) ==
    CASE l = LQuestionA -> {"question"}
      [] l = LQuestionB -> {"question"}
      [] l = LOptionYes -> {"option"}
      [] l = LMarkerNo -> {"marker"}
      [] l = LSelect -> {"option", "marker"}
      [] l = LDialogLine -> {"question", "option", "marker"}
      [] OTHER -> {}

\* C34: detectApprovalDialog(text) is true iff the text has a line matching the approval
\* question, a line with a numbered 'N. Yes' option and a line with the selection
\* marker, on different lines or on the same line, in any order; a text that lacks one
\* of the three is never reported
DialogNeedsAllThree ==
    probe.fn = "detectApprovalDialog"
        => LET text == probe.output
               shown == UNION {Shows(text[i]) : i \in 1..Len(text)}
           IN  probe.result <=> shown = {"question", "option", "marker"}

\* a dialog whose three components are on three lines, the question last, is detected
DialogDetectedInAnyOrder ==
    /\ probe.fn = "detectApprovalDialog"
    /\ probe.output = <<LMarkerNo, LOptionYes, LQuestionA>>
    /\ probe.result

(***************************************************************************)
(* Properties of the registry status                                       *)
(***************************************************************************)
\* a continuation of session s has cleared the flags and its write of status 'active'
\* is still to come
ActiveWritePending(s) ==
    \E c \in Slots : cycles[c].sid = s /\ cycles[c].pc \in {"autoUpdate", "limitUpdateActive"}

\* C35: for a monitored session, whenever the last status written to the registry is
\* 'waiting', awaitingContinuation is true, and once a continuation (a resolved
\* immediate try or the scheduled one) has completed, the last status written by the
\* limit machinery is 'active', however the poll cycles of the session interleave
WaitingStatusMeansAwaiting ==
    \A s \in Sessions :
        (/\ sessionStates[s] # 0
         /\ reg[s].present /\ reg[s].status = "waiting"
         /\ ~ActiveWritePending(s))
            => objs[sessionStates[s]].awaitingContinuation

(***************************************************************************)
(* Properties of the stored snapshot                                       *)
(***************************************************************************)
ApprovalPcs == {"approvalGetSession", "approvalCaptureColors", "approvalGetName",
                "approvalUpdate"}

\* the step of cycle c runs neither the limit nor the approval detector
NoDetectorRuns(c) ==
    LET s == cycles[c].sid
        g == sessionStates[s]
    IN  /\ cycles'[c].pc \notin TryPcs \cup LimitPcs \cup ApprovalPcs
        /\ events'[s]["limit_detected"] = events[s]["limit_detected"]
        /\ events'[s]["approval_needed"] = events[s]["approval_needed"]
        /\ objs'[g].limitDetectedAt = objs[g].limitDetectedAt
        /\ objs'[g].awaitingContinuation = objs[g].awaitingContinuation
        /\ objs'[g].lastApprovalQuestion = objs[g].lastApprovalQuestion
        /\ episodes'[g] = episodes[g]
        /\ approvals'[g] = approvals[g]

\* C36: each pane change is handed to the limit and approval detectors at most once:
\* the capture is stored as lastOutput in the step that analyses it, before any
\* detector is awaited, so whatever becomes of the detectors in that cycle (a failing
\* coloured capture, the limit cooldown), a later cycle that captures the same text
\* runs no limit and no approval detector
ChangeHandedToDetectorsOnce ==
    [][\A c \in Slots :
          Analyses(c)
              => LET s == cycles[c].sid
                     g == sessionStates[s]
                 IN  /\ objs'[g].lastOutput = pane[s].text
                     /\ pane[s].text = objs[g].lastOutput => NoDetectorRuns(c)]_vars

\* the coloured capture of a dialog failed, and a later cycle has captured the same
\* text and left the dialog unannounced
DialogLostAfterFailedCapture ==
    \E s \in Sessions :
        LET g == sessionStates[s]
        IN  /\ g # 0
            /\ pane[s].text = <<LQuestionB, LSelect>> /\ pane[s].color = "normal"
            /\ ~PaneFails(s)
            /\ objs[g].lastOutput = pane[s].text
            /\ approvals[g] = <<>>
            /\ objs[g].retryCount = 1
            /\ \A c \in Slots : cycles[c].pc = "idle"
            /\ timers[g].on
            /\ timers[g].next >= objs[g].lastOutputChangeTime + 2 * PollInterval

(***************************************************************************)
(* Properties of the announced question                                    *)
(***************************************************************************)
\* the step in which cycle c, handed an interactive dialog, runs handleApprovalRequest
HandlesDialog(c) ==
    /\ cycles[c].pc = "approvalCaptureColors"
    /\ cycles'[c] # cycles[c]
    /\ ~PaneFails(cycles[c].sid)
    /\ sessionStates[cycles[c].sid] # 0
    /\ isInteractiveApprovalDialog(pane[cycles[c].sid].text, pane[cycles[c].sid].color)

\* C37: lastApprovalQuestion of a state object changes only in a step that announces
\* the question it then holds (approval_needed emitted, the cycle going on to the
\* notification) or when stopMonitoring/startMonitoring have taken the object out of
\* the map; and a cycle handed an interactive dialog whose question is the one
\* lastApprovalQuestion holds emits no event, sends no notification, writes no status
\* and ends without an announcement, whatever happened since that question was stored
RepeatedQuestionStaysSilent ==
    [][ /\ \A g \in Objs :
               objs'[g].lastApprovalQuestion # objs[g].lastApprovalQuestion
               => \/ \E c \in Slots :
                         /\ HandlesDialog(c)
                         /\ sessionStates[cycles[c].sid] = g
                         /\ cycles'[c].pc = "approvalGetName"
                         /\ objs'[g].lastApprovalQuestion = ApprovalQuestion(cycles[c].slice)
                         /\ Len(approvals'[g]) = Len(approvals[g]) + 1
                         /\ events'[cycles[c].sid]["approval_needed"]
                                = events[cycles[c].sid]["approval_needed"] + 1
                  \/ /\ \A s \in Sessions : sessionStates'[s] # g
                     /\ objs'[g] = NewSessionState(StartClock)
        /\ \A c \in Slots :
               ( /\ HandlesDialog(c)
                 /\ ApprovalQuestion(cycles[c].slice)
                        = objs[sessionStates[cycles[c].sid]].lastApprovalQuestion )
               => /\ events' = events
                  /\ notes' = notes
                  /\ reg' = reg
                  /\ cycles'[c].pc = "idle"
                  /\ \A g \in Objs : Len(approvals'[g]) <= Len(approvals[g])
      ]_vars

\* question B was announced and notified once before any limit; since then a limit
\* episode has been entered and ended by a continuation, and a later cycle has been
\* handed the dialog with question B again and has ended without a second announcement
QuestionRepeatedAfterContinuation ==
    \E s \in Sessions :
        LET g == sessionStates[s]
        IN  /\ g # 0
            /\ \A c \in Slots : cycles[c].pc = "idle"
            /\ approvals[g] = <<[question |-> LQuestionB, notes |-> 1, after |-> 0]>>
            /\ Len(episodes[g]) = 1
            /\ ~objs[g].awaitingContinuation
            /\ objs[g].lastContinuationTime # Undefined
            /\ objs[g].lastOutput = <<LQuestionB, LSelect>>
            /\ objs[g].lastApprovalQuestion = LQuestionB
            /\ events[s]["approval_needed"] = 1
            /\ notes[s]["approval"] = 1

(***************************************************************************)
(* Properties of a long quiescent period                                   *)
(***************************************************************************)
\* C38: a cycle that finds the pane unchanged at an idle prompt, no limit episode
\* open and at least 10 s since the last change announces task_completed exactly when
\* no completion was announced yet or the 5-minute cooldown since the last one has
\* elapsed; the idle time it hands on is the time since lastOutputChangeTime, which
\* the cycle leaves as it is, so that every announcement of one quiescent period is
\* measured from the same change
QuiescentPeriodAnnouncedEveryCooldown ==
    [][\A c \in Slots :
          (IdleCheck(c) /\ IdleTime(c) >= MIN_IDLE_SECONDS)
              => LET g == sessionStates[cycles[c].sid]
                 IN  /\ objs'[g].lastOutputChangeTime = objs[g].lastOutputChangeTime
                     /\ IF NeverCompleted(c) \/ SinceCompletion(c) >= COMPLETION_COOLDOWN
                        THEN /\ Announces(c)
                             /\ cycles'[c].idleDurationSeconds
                                    = now - objs[g].lastOutputChangeTime
                             /\ objs'[g].lastTaskCompletionNotification = now
                             /\ Len(taskLog'[g]) = Len(taskLog[g]) + 1
                        ELSE ~Announces(c)]_vars

\* the pane has stayed at its prompt since before the first announcement, and a second
\* announcement, a cooldown later, is being handed to the notifier with an idle time
\* that reaches back over the first announcement to the last change of the output
SecondAnnouncementOfOnePeriod ==
    \E c \in Slots :
        LET g == cycles[c].ref
        IN  /\ cycles[c].pc = "taskGetName"
            /\ Len(taskLog[g]) = 2
            /\ taskLog[g][1] >= objs[g].lastOutputChangeTime + MIN_IDLE_SECONDS
            /\ taskLog[g][2] >= taskLog[g][1] + COMPLETION_COOLDOWN
            /\ cycles[c].idleDurationSeconds = taskLog[g][2] - objs[g].lastOutputChangeTime
            /\ cycles[c].idleDurationSeconds >= COMPLETION_COOLDOWN + MIN_IDLE_SECONDS
            /\ notes[cycles[c].sid]["task_completed"] = 1

(***************************************************************************)
(* Properties of a limit notice that arrives in pieces                     *)
(***************************************************************************)
\* the capture cycle c analyses extends lastOutput, which is not empty
ExtendsLastOutput(c) ==
    LET last == objs[sessionStates[cycles[c].sid]].lastOutput
        text == pane[cycles[c].sid].text
    IN  /\ last # <<>>
        /\ Len(text) > Len(last)
        /\ SubSeq(text, 1, Len(last)) = last

\* what that capture adds to lastOutput
Added(c) ==
    LET last == objs[sessionStates[cycles[c].sid]].lastOutput
        text == pane[cycles[c].sid].text
    IN  SubSeq(text, Len(last) + 1, Len(text))

\* C39: a cycle whose capture extends lastOutput enters no limit episode unless what
\* the capture adds holds both limit text and an active-terminal marker, whatever the
\* capture as a whole shows: limit text added in one cycle and the prompt added in a
\* later one enter no episode in either
LimitInPiecesEntersNoEpisode ==
    [][\A c \in Slots :
          (/\ Analyses(c)
           /\ ExtendsLastOutput(c)
           /\ ~(hasLimitMessage(Added(c)) /\ isActiveTerminalState(Added(c))))
              => NoLimitAction(c)]_vars

\* the snapshot shows the limit notice and the prompt under it, taken in by two cycles,
\* and no limit episode has been entered
NoticeAndPromptBothShownNoEpisode ==
    \E s \in Sessions :
        LET g == sessionStates[s]
        IN  /\ g # 0
            /\ \A c \in Slots : cycles[c].pc = "idle"
            /\ objs[g].lastOutput = <<LWork, LLimitRow, LPrompt>>
            /\ pane[s].text = objs[g].lastOutput
            /\ hasLimitMessage(objs[g].lastOutput)
            /\ isActiveTerminalState(objs[g].lastOutput)
            /\ episodes[g] = <<>>
            /\ ~objs[g].awaitingContinuation
            /\ objs[g].limitDetectedAt = Undefined
            /\ events[s]["limit_detected"] = 0
            /\ notes[s]["limit"] = 0

(***************************************************************************)
(* Properties of the two maps and the timers                               *)
(***************************************************************************)
\* the sessions a running timer polls, and the sessions the state map holds
TimedSessions == {s \in Sessions : \E g \in Objs : timers[g].on /\ timers[g].sid = s}
StatefulSessions == {s \in Sessions : sessionStates[s] # 0}

\* C40: the sessions that hold a timer are the sessions that hold runtime state, and
\* getActiveMonitoring() returns exactly them, whatever sequence of startMonitoring,
\* stopMonitoring, stopAll and self-stops went before
TimersMatchRuntimeState ==
    /\ TimedSessions = StatefulSessions
    /\ getActiveMonitoring = StatefulSessions

====
